---- MODULE Spec2Model ----
(***************************************************************************)
(* A model of three pieces of OGRE:                                        *)
(*   - HlmsCompute (OgreMain/src/OgreHlmsCompute.cpp): the compute job     *)
(*     map, the PSO cache, the compiled-program cache, dispatch,           *)
(*     clearShaderCache and destroyAllComputeJobs;                         *)
(*   - SceneFormatImporter (Components/SceneFormat): scene node import     *)
(*     with forward and backward parent references, and item import;       *)
(*   - GL3PlusTexBufferPacked (RenderSystems/GL3Plus): bindBuffer and its  *)
(*     six entry points.                                                   *)
(* The template stages of HlmsCompute::compileShader have a specification  *)
(* of their own, SpecPieces, that takes the piece loop one iteration at a  *)
(* time; SpecJobs is the job map with its lookups.                         *)
(* SpecDispatch and SpecShape dispatch jobs that exist from the start,     *)
(* SpecRs changes the render system, SpecNode applies importNode to one    *)
(* node and SpecReimport lets one importer import twice.                   *)
(* Indices into C++ vectors are kept 0-based, as in the source; a TLA+     *)
(* sequence element i of the source is element i + 1 of the sequence.      *)
(***************************************************************************)
EXTENDS Integers, Sequences, FiniteSets, TLC

(***************************************************************************)
(* Bounds of the model.                                                    *)
(***************************************************************************)
\* Number of compute jobs that createComputeJob may allocate.
MaxJobs == 2
\* Number of entries the PSO cache may hold (a compile is not started on a
\* full cache).
MaxCache == 2
\* Number of entries of the scene_nodes array of an imported document.
MaxNodes == 2
\* Number of entries of the items array of an imported document.
MaxItems == 2

(***************************************************************************)
(* Program constants.                                                      *)
(***************************************************************************)
\* job->mPsoCacheHash = -1.  The index is an unsigned 32-bit field; the model
\* keeps its bit pattern as a signed number and compares it as unsigned.
InvalidPsoCacheHash == -1
\* setProperty( HlmsBaseProp::GL3Plus, 330 )
GL3PlusVersion == 330
\* Width of the uint32 arithmetic of the dispatch-shape check.
UInt32Bits == 32

\* GPU program handles: the null handle, an arbitrary one, or a program made by
\* HighLevelGpuProgramManager::createProgram.
NullProgram == [kind |-> "null", id |-> 0]
GarbageProgram == [kind |-> "garbage", id |-> 0]

(***************************************************************************)
(* Property identifiers.  A property vector (HlmsPropertyVec) is a         *)
(* sequence of [keyName, value] kept sorted by the identifier order and    *)
(* without duplicate keys.                                                 *)
(***************************************************************************)
ThreadsPerGroupX == "threads_per_group_x"
ThreadsPerGroupY == "threads_per_group_y"
ThreadsPerGroupZ == "threads_per_group_z"
NumThreadGroupsX == "num_thread_groups_x"
NumThreadGroupsY == "num_thread_groups_y"
NumThreadGroupsZ == "num_thread_groups_z"
DisableStage == "hlms_disable_stage"
GL3Plus == "GL3+"
HighQuality == "hlms_high_quality"

\* The properties a client sets on a job in this model: "tint" is read by
\* the templates, "debug_tag" is read by none of them.

\* The order of IdString (a fixed total order on interned identifiers).
IdStringOrder ==
    << "debug_tag", DisableStage, GL3Plus, HighQuality,
       NumThreadGroupsX, NumThreadGroupsY, NumThreadGroupsZ,
       ThreadsPerGroupX, ThreadsPerGroupY, ThreadsPerGroupZ,
       "tint", "rs_extension" >>

IdStringRanks ==
    [key \in {IdStringOrder[i] : i \in 1..Len(IdStringOrder)} |->
        CHOOSE i \in 1..Len(IdStringOrder) : IdStringOrder[i] = key]

IdStringRank(key) == IdStringRanks[key]

\* Hlms::setProperty / HlmsComputeJob::setProperty: lower_bound on the sorted
\* vector, then overwrite the entry of that key or insert a new one there.
SetProperty(vec, key, value) ==
    LET n == Cardinality({i \in 1..Len(vec) :
                            IdStringRank(vec[i].keyName) < IdStringRank(key)})
        p == [keyName |-> key, value |-> value]
    IN IF n < Len(vec) /\ vec[n + 1].keyName = key
       THEN [vec EXCEPT ![n + 1] = p]
       ELSE SubSeq(vec, 1, n) \o <<p>> \o SubSeq(vec, n + 1, Len(vec))

\* Hlms::getProperty: the value of the key, 0 when the key is not set.
GetProperty(vec, key) ==
    IF \E i \in 1..Len(vec) : vec[i].keyName = key
    THEN (CHOOSE p \in {vec[i] : i \in 1..Len(vec)} : p.keyName = key).value
    ELSE 0

RECURSIVE SetProperties(_, _)
\* A run of setProperty calls, first to last.
SetProperties(vec, pairs) ==
    IF pairs = <<>> THEN vec
    ELSE SetProperties(SetProperty(vec, pairs[1][1], pairs[1][2]), Tail(pairs))

(***************************************************************************)
(* The environment of HlmsCompute.                                         *)
(***************************************************************************)
\* Hlms::mRsSpecificExtensions, Hlms::mShaderProfile, Hlms::mHighQuality.
mRsSpecificExtensions == << "rs_extension" >>
mShaderProfile == "glsl"
mHighQuality == 0

\* The template files of the resource group.
Sources == {"Fill.glsl", "Skip.glsl", "Broken.glsl"}

\* The templates in which a stage reports a syntax error.
SourceSyntaxError(source) == source = "Broken.glsl"

\* The properties a template reads: its text depends on their values only.
SourceReads(source) == {"tint"}

\* The @pset directives of a template: Skip.glsl asks for no shader.
SourcePsets(source) ==
    IF source = "Skip.glsl" THEN << <<DisableStage, 1>> >> ELSE << >>

\* The dispatch shapes of the jobs: <<mThreadsPerGroup, mNumThreadGroups>>.
ShapeOk == << <<8, 8, 1>>, <<2, 1, 1>> >>
ShapeNoThreads == << <<8, 0, 1>>, <<2, 1, 1>> >>
ShapeNoGroups == << <<8, 8, 1>>, <<0, 0, 0>> >>

\* What a client creates in this model: a job of a source file and a shape,
\* on which it then sets properties, in the order of "sets".
JobKind(name, source, shape, sets) ==
    [name |-> name, source |-> source, shape |-> shape, sets |-> sets]

JobKinds ==
    { JobKind("blur", "Fill.glsl", ShapeOk, << <<"tint", 1>>, <<"debug_tag", 1>> >>),
      JobKind("copy", "Fill.glsl", ShapeOk, << <<"debug_tag", 1>>, <<"tint", 1>> >>),
      JobKind("copy", "Fill.glsl", ShapeOk, << <<"tint", 1>> >>),
      JobKind("blur", "Fill.glsl", ShapeOk, << >>),
      JobKind("fill", "Fill.glsl", ShapeNoThreads, << <<"tint", 1>> >>),
      JobKind("skip", "Skip.glsl", ShapeNoGroups, << <<"tint", 1>> >>),
      JobKind("skip", "Skip.glsl", ShapeOk, << <<"tint", 1>> >>),
      JobKind("fill", "Broken.glsl", ShapeOk, << <<"tint", 1>> >>) }

JobNames == {kind.name : kind \in JobKinds}

\* Outcomes of reading itor->second with itor == mCompiledShaderCache.end():
\* the process dies, or the read yields a null or an arbitrary handle.
EndIteratorReads == {"crash", "null", "garbage"}

VARIABLES
    jobs,                   \* the HlmsComputeJob objects, by handle 1..Len(jobs)
    mComputeJobs,           \* HlmsCompute::mComputeJobs: name -> handle, 0 absent
    mComputeShaderCache,    \* HlmsCompute::mComputeShaderCache (PSO cache)
    mCompiledShaderCache,   \* HlmsCompute::mCompiledShaderCache: hash -> program
    mSetProperties,         \* Hlms::mSetProperties
    gpuPrograms,            \* programs created by HighLevelGpuProgramManager
    rsPsos,                 \* PSOs the render system holds (created, not destroyed)
    rsCalls,                \* render system calls of the latest operation
    last,                   \* the latest operation and how it ended
    crashed,                \* the process died
    document,               \* the JSON document handed to importScene
    mCreatedSceneNodes,     \* SceneFormatImporter::mCreatedSceneNodes
    sceneNodes,             \* the scene manager's nodes, in creation order
    sceneItems,             \* the scene manager's items, in creation order
    importLog,              \* messages the import wrote to the log
    importCalls,            \* the indices importSceneNode was called for, in order
    importResult,           \* how importScene ended
    imports,                \* the number of importScene calls on the importer
    pieceOutString,         \* compileShader's outString, as a sequence of tokens
    mPieces,                \* Hlms::mPieces: piece name -> text
    pieceSyntaxError,       \* compileShader's local syntaxError
    piecePc,                \* where compileShader stands: "begin", "parse",
                            \* "while", "done"
    pieceStages,            \* the stage calls of compileShader so far, in order
    pieceIteration,         \* the marker counts around the latest iteration
    texBuffer,              \* the members of a GL3PlusTexBufferPacked
    ndebug,                 \* the build has NDEBUG defined: assert() is empty
    glState,                \* the state of the GL context
    glCalls,                \* the GL calls of the latest bind, in order
    lastBind,               \* the latest bind: entry point, arguments, outcome
    nodeValue,              \* the "node" object handed to importNode
    node,                   \* the transform of the Node handed to importNode
    mRenderSystem,          \* Hlms::mRenderSystem: the profiles it supports
    shaderProfile,          \* Hlms::mShaderProfile, as _changeRenderSystem
                            \* leaves it
    mComputeShaderTarget    \* HlmsCompute::mComputeShaderTarget

hlmsVars == << jobs, mComputeJobs, mComputeShaderCache, mCompiledShaderCache,
               mSetProperties, gpuPrograms, rsPsos, rsCalls, last, crashed >>

importVars == << document, mCreatedSceneNodes, sceneNodes, sceneItems,
                 importLog, importCalls, importResult, imports >>

\* What the operations of HlmsCompute leave alone.
pieceVars == << pieceOutString, mPieces, pieceSyntaxError, piecePc,
               pieceStages, pieceIteration >>

bufferVars == << texBuffer, ndebug, glState, glCalls, lastBind >>

nodeVars == << nodeValue, node >>

rsVars == << mRenderSystem, shaderProfile, mComputeShaderTarget >>

otherVars == << importVars, pieceVars, bufferVars, nodeVars, rsVars >>

vars == << hlmsVars, otherVars >>

Handles == 1..Len(jobs)

\* A comparison of the two indices as signed numbers.
SignedGE(a, b) == a >= b

\* a >= b on the unsigned values of two 32-bit patterns: a pattern with the
\* top bit set (negative here) is above every pattern without it.
UnsignedGE(a, b) == IF (a < 0) = (b < 0) THEN a >= b ELSE a < 0

\* The record of the latest operation: what it was, on which job, the path
\* dispatch took, how it ended, whether the compile it made found its stage
\* enabled (line 220), and what it wrote to the log.
NoOperation == [op |-> "none", job |-> 0, path |-> "none", outcome |-> "none", stage |-> "none", log |-> << >>]

\* How an import ended: "none" while it has not run, "ok", an OGRE exception
\* ("ERR_ITEM_NOT_FOUND", with the node index its message names) or
\* "stack_overflow".
ImportEnd(code, nodeIdx) == [code |-> code, node |-> nodeIdx]
NoError == ImportEnd("none", 0)

\* A document without scene nodes and without items.
EmptyDocument == [scene_nodes |-> << >>, items |-> << >>]

InitImporter ==
    /\ mCreatedSceneNodes = << >>
    /\ sceneNodes = << >>
    /\ sceneItems = << >>
    /\ importLog = << >>
    /\ importCalls = << >>
    /\ importResult = NoError
    /\ imports = 0

(***************************************************************************)
(* The initial state of the piece loop and of the texture buffer.          *)
(***************************************************************************)
\* The names pieces can have.
PieceNames == {"a", "b"}

UndefinedPiece == [defined |-> FALSE, text |-> << >>]

NoIteration == [before |-> -1, after |-> -1]

\* No compile is going on.
InitPieces ==
    /\ pieceOutString = << >>
    /\ mPieces = [n \in PieceNames |-> UndefinedPiece]
    /\ pieceSyntaxError = FALSE
    /\ piecePc = "done"
    /\ pieceStages = << >>
    /\ pieceIteration = NoIteration

\* The texture of the buffer and the buffer object it reads.
mTexName == 1
VboName == 1

\* A GL context on which nothing was bound.
InitGlState ==
    [activeTexture |-> 0, unpackAlignment |-> 4, pixelUnpackBuffer |-> 0,
     unit |-> 0, target |-> "none", start |-> 0, bytes |-> 0]

NoBind == [entry |-> "none", slot |-> 0, offset |-> 0, sizeBytes |-> 0, outcome |-> "none"]

\* An empty buffer nobody binds.
InitBuffer ==
    /\ texBuffer = [mNumElements |-> 0, mBytesPerElement |-> 1,
                    mFinalBufferStart |-> 0, mUseLegacyTechnique |-> FALSE,
                    mInternalNumElemBytes |-> 1, mInternalNumElements |-> 0]
    /\ ndebug = FALSE
    /\ glState = InitGlState
    /\ glCalls = << >>
    /\ lastBind = NoBind

(***************************************************************************)
(* The initial state of the node importNode works on and of the render     *)
(* system selection.                                                       *)
(***************************************************************************)
\* A float, kept as its 32-bit pattern; 1.0 has exponent 127 and mantissa 0.
Float(u32) == [u32 |-> u32]
FloatOne == Float(127 * (2 ^ 23))

Vector3Zero == << Float(0), Float(0), Float(0) >>
Vector3UnitScale == << FloatOne, FloatOne, FloatOne >>
QuaternionIdentity == << FloatOne, Float(0), Float(0), Float(0) >>

\* The transform of a node the scene manager has just created.
EngineDefaults ==
    [ position |-> Vector3Zero, orientation |-> QuaternionIdentity,
      scale |-> Vector3UnitScale, inheritOrientation |-> TRUE,
      inheritScale |-> TRUE ]

\* A member FindMember does not find.
AbsentMember == [kind |-> "absent", array |-> << >>, bool |-> FALSE]

NodeMembers ==
    {"position", "rotation", "scale", "inherit_orientation", "inherit_scale"}

InitNode ==
    /\ nodeValue = [m \in NodeMembers |-> AbsentMember]
    /\ node = EngineDefaults

\* No render system yet; HlmsCompute's constructor leaves the target null
\* (line 82).
NoRenderSystem == {"none"}
NoTarget == "null"

InitRs ==
    /\ mRenderSystem = NoRenderSystem
    /\ shaderProfile = "unset"
    /\ mComputeShaderTarget = NoTarget

(***************************************************************************)
(* The initial state of HlmsCompute.                                       *)
(***************************************************************************)
InitHlms ==
    /\ jobs = << >>
    /\ mComputeJobs = [n \in JobNames |-> 0]
    /\ mComputeShaderCache = << >>
    /\ mCompiledShaderCache = {}
    /\ mSetProperties = << >>
    /\ gpuPrograms = {}
    /\ rsPsos = {}
    /\ rsCalls = << >>
    /\ last = NoOperation
    /\ crashed = FALSE

Init ==
    /\ InitHlms
    /\ InitImporter
    /\ InitPieces
    /\ InitBuffer
    /\ InitNode
    /\ InitRs
    /\ document = EmptyDocument

(***************************************************************************)
(* HlmsComputeJob (the job's own state and methods).                       *)
(***************************************************************************)
\* The slots every job of the model binds: one constant buffer, a texture
\* buffer and an image in the texture slots, a buffer and an image in the
\* UAV slots.
JobConstBuffers == << [slotIdx |-> 0] >>
JobTextureSlots == << [slotIdx |-> 0, buffer |-> TRUE],
                      [slotIdx |-> 1, buffer |-> FALSE] >>
JobUavSlots == << [slotIdx |-> 0, buffer |-> TRUE],
                  [slotIdx |-> 1, buffer |-> FALSE] >>

\* A job as the client has set it up: constructed by createComputeJob, its
\* shape set, its properties set one by one. "alive" is the object's
\* lifetime: FALSE once OGRE_DELETE has run on it.
NewJob(kind) ==
    [ mName |-> kind.name,
      mSourceFilename |-> kind.source,
      mSetProperties |-> SetProperties(<< >>, kind.sets),
      sets |-> kind.sets,
      mThreadsPerGroup |-> kind.shape[1],
      mNumThreadGroups |-> kind.shape[2],
      mPsoCacheHash |-> InvalidPsoCacheHash,
      alive |-> TRUE ]

\* HlmsComputeJob::_updateAutoProperties: the job's dispatch shape becomes
\* six properties of the job.
UpdateAutoProperties(job) ==
    SetProperties(job.mSetProperties,
        << <<ThreadsPerGroupX, job.mThreadsPerGroup[1]>>,
           <<ThreadsPerGroupY, job.mThreadsPerGroup[2]>>,
           <<ThreadsPerGroupZ, job.mThreadsPerGroup[3]>>,
           <<NumThreadGroupsX, job.mNumThreadGroups[1]>>,
           <<NumThreadGroupsY, job.mNumThreadGroups[2]>>,
           <<NumThreadGroupsZ, job.mNumThreadGroups[3]>> >>)

(***************************************************************************)
(* The template compiler (Hlms::parseMath .. parseCounter), as far as      *)
(* compileShader observes it: the expanded text, and the properties the    *)
(* template sets.                                                          *)
(***************************************************************************)
ParseTemplate(source, props) ==
    LET after == SetProperties(props, SourcePsets(source))
    IN [ outString |-> [ body |-> source,
                         reads |-> [k \in SourceReads(source) |->
                                        GetProperty(after, k)] ],
         props |-> after,
         syntaxError |-> SourceSyntaxError(source) ]

\* MurmurHash3 over the expanded text; the model keeps the text as its hash.
Hash128(outString) == outString

(***************************************************************************)
(* HlmsCompute::compileShader                                              *)
(***************************************************************************)
RECURSIVE TrailingZeros(_)
\* The number of trailing zero bits of a non-zero value (the same for a
\* value and for its two's complement).
TrailingZeros(v) ==
    IF v < 0 THEN TrailingZeros(0 - v)
    ELSE IF v % 2 = 1 THEN 0 ELSE 1 + TrailingZeros(v \div 2)

\* t[0] * t[1] * t[2] == 0u in uint32 arithmetic: the product modulo 2^32 is
\* zero when a factor is zero or the factors share 32 trailing zero bits.
ShapeProductIsZero(t) ==
    \/ t[1] = 0 \/ t[2] = 0 \/ t[3] = 0
    \/ TrailingZeros(t[1]) + TrailingZeros(t[2]) + TrailingZeros(t[3])
           >= UInt32Bits

\* mCompiledShaderCache.find( hashVal ) != mCompiledShaderCache.end()
CompiledShaderFound(compiled, hashVal) == \E e \in compiled : e.hash = hashVal

\* mCompiledShaderCache[hashVal] = shader
CompiledShaderPut(compiled, hashVal, shader) ==
    {e \in compiled : e.hash # hashVal} \cup {[hash |-> hashVal, shader |-> shader]}

\* The handle the render system writes into a PSO in its created hook: the
\* lowest one not in use.
NewRsData(held) == CHOOSE i \in 1..(Cardinality(held) + 1) :
                       i \notin held /\ \A j \in 1..(i - 1) : j \in held

\* Lines 153-174: the render system's extensions, the shader profile's
\* syntax and the quality switch become properties.
RsProperties(props) ==
    SetProperty(
        IF mShaderProfile = "glsl"
        THEN SetProperty(SetProperties(props,
                             [i \in 1..Len(mRsSpecificExtensions) |->
                                 <<mRsSpecificExtensions[i], 1>>]),
                         GL3Plus, GL3PlusVersion)
        ELSE SetProperties(props,
                 [i \in 1..Len(mRsSpecificExtensions) |->
                     <<mRsSpecificExtensions[i], 1>>]),
        HighQuality, mHighQuality)

\* The three values a dispatch shape is read back from.
ShapeOf(props, keyX, keyY, keyZ) ==
    << GetProperty(props, keyX), GetProperty(props, keyY),
       GetProperty(props, keyZ) >>

\* Lines 200-205: what compileShader logs when a stage reported an error.
SyntaxErrorMessage == "There were HLMS syntax errors while parsing"

\* A stage check that finds every stage enabled.
StageAlwaysEnabled(props) == TRUE

\* Line 220: !getProperty( HlmsBaseProp::DisableStage )
StageEnabled(props) == GetProperty(props, DisableStage) = 0

\* A reset that leaves the flag as the template set it.
KeepDisableStage(props) == props

\* Line 264: setProperty( HlmsBaseProp::DisableStage, 0 )
ResetDisableStage(props) == SetProperty(props, DisableStage, 0)

\* Lines 224-289 of compileShader, from the lookup of the expanded text on.
\* enabled: the stage is not disabled; found: the text's hash is in
\* mCompiledShaderCache; props: mSetProperties after line 264.
CompileStage(job, finalHash, outString, syntaxError, enabled, found, props, compiled, programs, held, endRead) ==
    LET \* if( itor == mCompiledShaderCache.end() ) shader = itor->second;
        readsEnd == enabled /\ ~found
        creates == enabled /\ found
        gp == [ kind |-> "program", id |-> Cardinality(programs) + 1 ]
        tpg == ShapeOf(props, ThreadsPerGroupX, ThreadsPerGroupY,
                       ThreadsPerGroupZ)
        ntg == ShapeOf(props, NumThreadGroupsX, NumThreadGroupsY,
                       NumThreadGroupsZ)
    IN [ outcome |->
             IF readsEnd /\ endRead = "crash" THEN "crash"
             ELSE IF ShapeProductIsZero(tpg) \/ ShapeProductIsZero(ntg)
                  THEN "invalid_params" ELSE "ok",
         pso |-> [ rsData |-> NewRsData(held),
                   computeShader |->
                       IF ~enabled THEN NullProgram
                       ELSE IF readsEnd
                            THEN (IF endRead = "garbage" THEN GarbageProgram
                                                         ELSE NullProgram)
                            ELSE gp,
                   mThreadsPerGroup |-> tpg,
                   mNumThreadGroups |-> ntg ],
         properties |-> props,
         programs |->
             IF creates
             THEN programs \cup
                    {[ id |-> gp.id,
                       name |-> <<finalHash, job.mSourceFilename>>,
                       text |-> outString ]}
             ELSE programs,
         compiled |->
             IF creates
             THEN CompiledShaderPut(compiled, Hash128(outString), gp)
             ELSE compiled,
         readsEnd |-> readsEnd,
         created |-> creates,
         stage |-> IF enabled THEN "enabled" ELSE "disabled",
         log |-> IF syntaxError THEN << SyntaxErrorMessage >> ELSE << >> ]

\* Lines 179-264: the template is expanded, the stage's disable flag is read
\* and then reset to 0.
CompileParsed(job, finalHash, parsed, compiled, programs, held, endRead) ==
    CompileStage(job, finalHash, parsed.outString, parsed.syntaxError,
                 StageEnabled(parsed.props),
                 CompiledShaderFound(compiled, Hash128(parsed.outString)),
                 ResetDisableStage(parsed.props),
                 compiled, programs, held, endRead)

\* compileShader( job, finalHash ), entered with mSetProperties = props.
\* endRead is what the read through the end iterator gives, when it is made.
CompileShader(job, finalHash, props, compiled, programs, held, endRead) ==
    CompileParsed(job, finalHash,
                  ParseTemplate(job.mSourceFilename, RsProperties(props)),
                  compiled, programs, held, endRead)

(***************************************************************************)
(* HlmsCompute::createComputeJob                                           *)
(***************************************************************************)
CreateComputeJob(kind) ==
    /\ ~crashed
    /\ Len(jobs) < MaxJobs
    /\ jobs' = Append(jobs, NewJob(kind))
    /\ mComputeJobs' = [mComputeJobs EXCEPT ![kind.name] = Len(jobs) + 1]
    /\ rsCalls' = << >>
    /\ last' = [op |-> "create", job |-> Len(jobs) + 1, path |-> "none",
                outcome |-> "ok", stage |-> "none", log |-> << >>]
    /\ UNCHANGED << mComputeShaderCache, mCompiledShaderCache, mSetProperties,
                    gpuPrograms, rsPsos, crashed, otherVars >>

(***************************************************************************)
(* HlmsCompute::dispatch                                                   *)
(***************************************************************************)
\* ComputePsoCache::operator == : two cache records are equal when their
\* property vectors are.
PsoCacheEquals(a, b) == a.setProperties = b.setProperties

\* A lookup that takes two records to be equal only when they are of the
\* same job as well.
FindPsoCacheOfSameJob(cache, psoCache) ==
    LET hits == {i \in 1..Len(cache) :
                    /\ PsoCacheEquals(cache[i], psoCache)
                    /\ cache[i].job = psoCache.job}
    IN IF hits = {} THEN Len(cache)
       ELSE (CHOOSE i \in hits : \A j \in hits : i <= j) - 1

\* A lookup that finds nothing.
FindPsoCacheNothing(cache, psoCache) == Len(cache)

\* std::find( mComputeShaderCache.begin(), mComputeShaderCache.end(), psoCache ),
\* as the 0-based position of the first equal entry, or the size when there
\* is none (the end iterator).
FindPsoCache(cache, psoCache) ==
    LET hits == {i \in 1..Len(cache) : PsoCacheEquals(cache[i], psoCache)}
    IN IF hits = {} THEN Len(cache)
       ELSE (CHOOSE i \in hits : \A j \in hits : i <= j) - 1

Call(name, arg) == [call |-> name, arg |-> arg]

\* The PSOs (or slots) a run of calls was made with.
CallArgs(calls) == {calls[i].arg : i \in 1..Len(calls)}

ConstBufferCalls(slots) ==
    [i \in 1..Len(slots) |-> Call("ConstBufferPacked::bindBufferCS", slots[i].slotIdx)]

RECURSIVE TextureCalls(_)
TextureCalls(slots) ==
    IF slots = << >> THEN << >>
    ELSE (IF slots[1].buffer
          THEN << Call("TexBufferPacked::bindBufferCS", slots[1].slotIdx) >>
          ELSE << Call("_setTexture", slots[1].slotIdx),
                  Call("_setHlmsSamplerblock", slots[1].slotIdx) >>)
         \o TextureCalls(Tail(slots))

UavCalls(slots) ==
    [i \in 1..Len(slots) |->
        IF slots[i].buffer
        THEN Call("UavBufferPacked::bindBufferCS", slots[i].slotIdx)
        ELSE Call("_bindTextureUavCS", slots[i].slotIdx)]

\* The bindings made after the PSO was set and the dispatch was issued.
DispatchThenBindCalls(pso) ==
    << Call("_setComputePso", pso.rsData), Call("_dispatch", pso.rsData) >>
        \o ConstBufferCalls(JobConstBuffers) \o TextureCalls(JobTextureSlots)
        \o UavCalls(JobUavSlots)

\* Lines 366-419: the bindings, then the PSO, then the dispatch.
BindAndDispatchCalls(pso) ==
    ConstBufferCalls(JobConstBuffers) \o TextureCalls(JobTextureSlots)
        \o UavCalls(JobUavSlots)
        \o << Call("_setComputePso", pso.rsData), Call("_dispatch", pso.rsData) >>

PsoCreatedCall(pso) == Call("_hlmsComputePipelineStateObjectCreated", pso.rsData)
PsoDestroyedCall(pso) == Call("_hlmsComputePipelineStateObjectDestroyed", pso.rsData)

\* What the read of line 230 can give in a compile: nothing when the compile
\* does not make it.
EndIteratorReadsOf(job, props, compiled) ==
    IF CompileShader(job, 0, props, compiled, {}, {}, "null").readsEnd
    THEN EndIteratorReads ELSE {"none"}

\* The two property vectors dispatch swaps: << the job's, psoCache's >>.
\* Line 333: psoCache.setProperties.swap( job->mSetProperties )
BorrowProperties(pair) == << pair[2], pair[1] >>

\* A dispatch that keeps what it has borrowed.
KeepProperties(pair) == pair

\* Lines 343 and 361: the same swap again.
ReturnProperties(pair) == << pair[2], pair[1] >>

\* The job's vector when the search is over: refreshed is the vector
\* _updateAutoProperties left, psoCache's vector starts empty.
PropertiesGivenBack(refreshed) ==
    ReturnProperties(BorrowProperties(<< refreshed, << >> >>))[1]

\* The index the hit branch writes to the job: itor - begin().
HitIndex(cache, psoCache) == FindPsoCache(cache, psoCache)

\* The key stored from the properties compileShader worked on.
MissCacheKeyOfHlms(refreshed, c) == c.properties

\* Line 353: the key of the new entry is a hard copy of job->mSetProperties.
MissCacheKey(refreshed, c) == refreshed

\* Lines 338-357, the miss branch once compileShader has returned c (or has
\* thrown, or has brought the process down).
DispatchMiss(h, refreshed, c) ==
    IF c.outcome = "crash"
    THEN /\ crashed' = TRUE
         /\ rsCalls' = << >>
         /\ last' = [op |-> "dispatch", job |-> h, path |-> "miss",
                     outcome |-> "crash", stage |-> c.stage, log |-> c.log]
         /\ UNCHANGED << jobs, mComputeJobs, mComputeShaderCache,
                         mCompiledShaderCache, mSetProperties, gpuPrograms,
                         rsPsos, otherVars >>
    ELSE IF c.outcome = "invalid_params"
    THEN /\ jobs' = [jobs EXCEPT
                       ![h].mSetProperties = PropertiesGivenBack(refreshed)]
         /\ mSetProperties' = c.properties
         /\ mCompiledShaderCache' = c.compiled
         /\ gpuPrograms' = c.programs
         /\ rsCalls' = << >>
         /\ last' = [op |-> "dispatch", job |-> h, path |-> "miss",
                     outcome |-> "invalid_params", stage |-> c.stage,
                     log |-> c.log]
         /\ UNCHANGED << mComputeJobs, mComputeShaderCache, rsPsos, crashed,
                         otherVars >>
    ELSE /\ jobs' = [jobs EXCEPT
                       ![h].mSetProperties = PropertiesGivenBack(refreshed),
                       ![h].mPsoCacheHash = Len(mComputeShaderCache)]
         /\ mSetProperties' = c.properties
         /\ mCompiledShaderCache' = c.compiled
         /\ gpuPrograms' = c.programs
         /\ mComputeShaderCache' =
                Append(mComputeShaderCache,
                       [job |-> h, setProperties |-> MissCacheKey(refreshed, c),
                        pso |-> c.pso])
         /\ rsPsos' = rsPsos \cup {c.pso.rsData}
         /\ rsCalls' = << PsoCreatedCall(c.pso) >> \o BindAndDispatchCalls(c.pso)
         /\ last' = [op |-> "dispatch", job |-> h, path |-> "miss",
                     outcome |-> "ok", stage |-> c.stage, log |-> c.log]
         /\ UNCHANGED << mComputeJobs, crashed, otherVars >>

\* Lines 359-363, the hit branch: itor is the position of the equal entry.
DispatchHit(h, refreshed, itor) ==
    /\ jobs' = [jobs EXCEPT
                  ![h].mSetProperties = PropertiesGivenBack(refreshed),
                  ![h].mPsoCacheHash = itor]
    /\ rsCalls' = BindAndDispatchCalls(mComputeShaderCache[itor + 1].pso)
    /\ last' = [op |-> "dispatch", job |-> h, path |-> "hit", outcome |-> "ok",
                stage |-> "none", log |-> << >>]
    /\ UNCHANGED << mComputeJobs, mComputeShaderCache, mCompiledShaderCache,
                    mSetProperties, gpuPrograms, rsPsos, crashed, otherVars >>

\* Lines 325-364: the job's index is out of bounds; refreshed is the job's
\* property vector after _updateAutoProperties.
DispatchRecompile(h, refreshed) ==
    IF FindPsoCache(mComputeShaderCache,
                    [job |-> h, setProperties |-> refreshed])
           = Len(mComputeShaderCache)
    THEN
        \* Needs to recompile.
        /\ Len(mComputeShaderCache) < MaxCache
        /\ \E endRead \in EndIteratorReadsOf(jobs[h], refreshed,
                                             mCompiledShaderCache) :
              DispatchMiss(h, refreshed,
                  CompileShader(jobs[h], Len(mComputeShaderCache), refreshed,
                                mCompiledShaderCache, gpuPrograms, rsPsos,
                                endRead))
    ELSE
        \* It was already in the cache.
        DispatchHit(h, refreshed,
            HitIndex(mComputeShaderCache,
                     [job |-> h, setProperties |-> refreshed]))

\* Lines 366-419 with the index in bounds on entry: the entry is used as is.
DispatchCached(h) ==
    /\ rsCalls' = BindAndDispatchCalls(
                      mComputeShaderCache[jobs[h].mPsoCacheHash + 1].pso)
    /\ last' = [op |-> "dispatch", job |-> h, path |-> "cached",
                outcome |-> "ok", stage |-> "none", log |-> << >>]
    /\ UNCHANGED << jobs, mComputeJobs, mComputeShaderCache,
                    mCompiledShaderCache, mSetProperties, gpuPrograms, rsPsos,
                    crashed, otherVars >>

Dispatch(h) ==
    /\ ~crashed
    /\ h \in Handles
    /\ jobs[h].alive
    /\ IF UnsignedGE(jobs[h].mPsoCacheHash, Len(mComputeShaderCache))
       THEN DispatchRecompile(h, UpdateAutoProperties(jobs[h]))
       ELSE DispatchCached(h)

(***************************************************************************)
(* HlmsCompute::clearShaderCache                                           *)
(***************************************************************************)
\* A loop that starts at the second entry.
ClearDestroyedCallsButFirst(cache) ==
    [i \in 1..(Len(cache) - 1) |-> PsoDestroyedCall(cache[i + 1].pso)]

\* The calls of the loop: the destroyed hook for every entry, in order.
ClearDestroyedCalls(cache) ==
    [i \in 1..Len(cache) |-> PsoDestroyedCall(cache[i].pso)]

\* The jobs the loop writes: itor->job->mPsoCacheHash = -1.
ClearResetJobs(cache) == {cache[i].job : i \in 1..Len(cache)}

\* Line 314 writes through itor->job. When the job of an entry has been
\* deleted the write is a use of freed memory: it lands in the freed block
\* and the loop goes on ("ok"), or the process dies at that entry ("crash").
ClearWriteOutcomes(cache) ==
    IF \E i \in 1..Len(cache) : ~jobs[cache[i].job].alive
    THEN {"ok", "crash"} ELSE {"ok"}

\* The first entry whose job has been deleted: the loop has called the hook
\* for the entries up to it when the write brings the process down.
FirstDanglingEntry(cache) ==
    CHOOSE i \in 1..Len(cache) :
        /\ ~jobs[cache[i].job].alive
        /\ \A k \in 1..(i - 1) : jobs[cache[k].job].alive

ClearShaderCacheCrash(cache, upTo) ==
    /\ crashed' = TRUE
    /\ jobs' = [h \in Handles |->
                  IF h \in ClearResetJobs(SubSeq(cache, 1, upTo - 1))
                  THEN [jobs[h] EXCEPT !.mPsoCacheHash = InvalidPsoCacheHash]
                  ELSE jobs[h]]
    /\ rsCalls' = ClearDestroyedCalls(SubSeq(cache, 1, upTo))
    /\ rsPsos' = rsPsos \ CallArgs(ClearDestroyedCalls(SubSeq(cache, 1, upTo)))
    /\ last' = [op |-> "clear", job |-> cache[upTo].job, path |-> "none",
                outcome |-> "crash", stage |-> "none", log |-> << >>]
    /\ UNCHANGED << mComputeJobs, mComputeShaderCache, mCompiledShaderCache,
                    mSetProperties, gpuPrograms, otherVars >>

ClearShaderCache ==
    /\ ~crashed
    /\ \E outcome \in ClearWriteOutcomes(mComputeShaderCache) :
          IF outcome = "crash"
          THEN ClearShaderCacheCrash(mComputeShaderCache,
                                     FirstDanglingEntry(mComputeShaderCache))
          ELSE
            /\ jobs' = [h \in Handles |->
                  IF h \in ClearResetJobs(mComputeShaderCache)
                  THEN [jobs[h] EXCEPT !.mPsoCacheHash = InvalidPsoCacheHash]
                  ELSE jobs[h]]
            /\ rsCalls' = ClearDestroyedCalls(mComputeShaderCache)
            /\ rsPsos' = rsPsos
                            \ CallArgs(ClearDestroyedCalls(mComputeShaderCache))
            /\ mCompiledShaderCache' = {}
            /\ mComputeShaderCache' = << >>
            /\ last' = [op |-> "clear", job |-> 0, path |-> "none",
                        outcome |-> "ok", stage |-> "none", log |-> << >>]
            /\ UNCHANGED << mComputeJobs, mSetProperties, gpuPrograms, crashed,
                            otherVars >>

(***************************************************************************)
(* HlmsCompute::destroyAllComputeJobs (and ~HlmsCompute, which calls it)   *)
(***************************************************************************)
\* The jobs the map holds: a job whose name a later createComputeJob took
\* is no longer among them.
RegisteredJobs == {mComputeJobs[n] : n \in JobNames} \ {0}

\* Lines 294-303: OGRE_DELETE on the job of every map entry, then
\* mComputeJobs.clear(). Neither cache is touched and no hook is called.
DestroyAllComputeJobs ==
    /\ ~crashed
    /\ jobs' = [h \in Handles |->
                  IF h \in RegisteredJobs
                  THEN [jobs[h] EXCEPT !.alive = FALSE]
                  ELSE jobs[h]]
    /\ mComputeJobs' = [n \in JobNames |-> 0]
    /\ rsCalls' = << >>
    /\ last' = [op |-> "destroyAll", job |-> 0, path |-> "none",
                outcome |-> "ok", stage |-> "none", log |-> << >>]
    /\ UNCHANGED << mComputeShaderCache, mCompiledShaderCache, mSetProperties,
                    gpuPrograms, rsPsos, crashed, otherVars >>

(***************************************************************************)
(* HlmsCompute::findComputeJob, HlmsCompute::findComputeJobNoThrow         *)
(***************************************************************************)
\* A lookup that finds nothing, whatever the map holds.
LookupNothing(map, name) == 0

\* Lines 457-461: mComputeJobs.find( datablockName ), the job of the entry
\* found or 0.
LookupComputeJob(map, name) == map[name]

\* Lines 455-464: const, returns the pointer or null.
FindComputeJobNoThrow(name) ==
    /\ ~crashed
    /\ rsCalls' = << >>
    /\ last' = [op |-> "findNoThrow",
                job |-> LookupComputeJob(mComputeJobs, name),
                path |-> "none", outcome |-> "ok", stage |-> "none",
                log |-> << >>]
    /\ UNCHANGED << jobs, mComputeJobs, mComputeShaderCache,
                    mCompiledShaderCache, mSetProperties, gpuPrograms, rsPsos,
                    crashed, otherVars >>

\* Lines 441-453: the same lookup; a null result raises ERR_ITEM_NOT_FOUND.
FindComputeJob(name) ==
    /\ ~crashed
    /\ rsCalls' = << >>
    /\ last' = [op |-> "find",
                job |-> LookupComputeJob(mComputeJobs, name),
                path |-> "none",
                outcome |-> IF LookupComputeJob(mComputeJobs, name) = 0
                            THEN "item_not_found" ELSE "ok",
                stage |-> "none", log |-> << >>]
    /\ UNCHANGED << jobs, mComputeJobs, mComputeShaderCache,
                    mCompiledShaderCache, mSetProperties, gpuPrograms, rsPsos,
                    crashed, otherVars >>

Next ==
    \/ \E kind \in JobKinds : CreateComputeJob(kind)
    \/ \E h \in 1..MaxJobs : Dispatch(h)
    \/ ClearShaderCache
    \/ DestroyAllComputeJobs

Spec == Init /\ [][Next]_vars

\* The job map on its own: jobs are created, looked up by name and destroyed.
NextJobs ==
    \/ \E kind \in JobKinds : CreateComputeJob(kind)
    \/ \E name \in JobNames : FindComputeJob(name)
    \/ \E name \in JobNames : FindComputeJobNoThrow(name)
    \/ DestroyAllComputeJobs

SpecJobs == Init /\ [][NextJobs]_vars


\* Dispatches and cache clears over a fixed set of jobs: the jobs have been
\* created, one createComputeJob after the other, and none is created or
\* destroyed afterwards.
CreatedJobs == 3

\* mComputeJobs after the jobs of the sequence were created in order: the
\* latest job of a name holds the name.
JobMapOf(created) ==
    [n \in JobNames |->
        IF \E i \in 1..Len(created) : created[i].mName = n
        THEN CHOOSE i \in 1..Len(created) :
                /\ created[i].mName = n
                /\ \A k \in 1..Len(created) : created[k].mName = n => k <= i
        ELSE 0]

InitDispatch ==
    /\ jobs \in [1..CreatedJobs -> {NewJob(kind) : kind \in JobKinds}]
    /\ mComputeJobs = JobMapOf(jobs)
    /\ mComputeShaderCache = << >>
    /\ mCompiledShaderCache = {}
    /\ mSetProperties = << >>
    /\ gpuPrograms = {}
    /\ rsPsos = {}
    /\ rsCalls = << >>
    /\ last = NoOperation
    /\ crashed = FALSE
    /\ InitImporter
    /\ InitPieces
    /\ InitBuffer
    /\ InitNode
    /\ InitRs
    /\ document = EmptyDocument

NextDispatch ==
    \/ \E h \in Handles : Dispatch(h)
    \/ ClearShaderCache

SpecDispatch == InitDispatch /\ [][NextDispatch]_vars

(***************************************************************************)
(* Properties of HlmsCompute.                                              *)
(***************************************************************************)

\* One job of any dispatch shape, on a template that takes the shape as the
\* job gives it: a dimension is zero, small, or 2^16 (two such dimensions
\* multiply to 2^32).
ShapeValues == {0, 3, 2 ^ 16}
Shapes == { << t, n >> : t \in [1..3 -> ShapeValues], n \in [1..3 -> ShapeValues] }

InitShape ==
    /\ jobs \in { << NewJob(JobKind("fill", "Fill.glsl", shape, << >>)) >> :
                    shape \in Shapes }
    /\ mComputeJobs = JobMapOf(jobs)
    /\ mComputeShaderCache = << >>
    /\ mCompiledShaderCache = {}
    /\ mSetProperties = << >>
    /\ gpuPrograms = {}
    /\ rsPsos = {}
    /\ rsCalls = << >>
    /\ last = NoOperation
    /\ crashed = FALSE
    /\ InitImporter
    /\ InitPieces
    /\ InitBuffer
    /\ InitNode
    /\ InitRs
    /\ document = EmptyDocument

SpecShape == InitShape /\ [][NextDispatch]_vars

\* The job's index is out of the PSO cache's bounds (the unsigned comparison
\* of line 325).
IndexOutOfBounds(h) ==
    UnsignedGE(jobs[h].mPsoCacheHash, Len(mComputeShaderCache))

\* The entries of the PSO cache whose property vector equals the one job h
\* has after _updateAutoProperties.
EqualEntries(h) ==
    {i \in 1..Len(mComputeShaderCache) :
        mComputeShaderCache[i].setProperties = UpdateAutoProperties(jobs[h])}

\* The text the template of entry e expanded to, and whether its stage was
\* left enabled.
EntryParsed(e) ==
    ParseTemplate(jobs[e.job].mSourceFilename, RsProperties(e.setProperties))
EntryText(e) == EntryParsed(e).outString
EntryEnabled(e) == GetProperty(EntryParsed(e).props, DisableStage) = 0

\* The dispatch shape job h has at the end of its template's expansion has a
\* zero product.
ZeroShapeAfterExpansion(h) ==
    LET props == ParseTemplate(jobs[h].mSourceFilename,
                     RsProperties(UpdateAutoProperties(jobs[h]))).props
    IN \/ ShapeProductIsZero(ShapeOf(props, ThreadsPerGroupX,
                                     ThreadsPerGroupY, ThreadsPerGroupZ))
       \/ ShapeProductIsZero(ShapeOf(props, NumThreadGroupsX,
                                     NumThreadGroupsY, NumThreadGroupsZ))

C2_IdenticalTextSharesProgram ==
    \A i, j \in 1..Len(mComputeShaderCache) :
        LET a == mComputeShaderCache[i]
            b == mComputeShaderCache[j]
        IN ( /\ i # j
             /\ EntryEnabled(a) /\ EntryEnabled(b)
             /\ EntryText(a) = EntryText(b) )
           => /\ a.pso.computeShader = b.pso.computeShader
              /\ a.pso.computeShader.kind = "program"
              /\ Cardinality({g \in gpuPrograms : g.text = EntryText(a)}) = 1

\* C3: right after clearShaderCache every job holds the invalid index, the
\* jobs that shared an entry another job had compiled included.
C3_ClearResetsEveryJob ==
    last.op = "clear"
        => \A h \in Handles : jobs[h].mPsoCacheHash = InvalidPsoCacheHash

\* C4: clearShaderCache calls the destroyed hook exactly once for every
\* entry the PSO cache held and leaves the PSO cache and the program cache
\* empty, so that no PSO the render system was given in the created hook is
\* still alive or reachable afterwards.
C4_ClearDestroysEveryPso ==
    [][ ( ~crashed /\ last'.op = "clear" /\ last'.outcome = "ok" )
        => /\ Len(rsCalls') = Len(mComputeShaderCache)
           /\ \A i \in 1..Len(mComputeShaderCache) :
                 Cardinality({k \in 1..Len(rsCalls') :
                     rsCalls'[k] = PsoDestroyedCall(mComputeShaderCache[i].pso)})
                   = 1
           /\ mComputeShaderCache' = << >>
           /\ mCompiledShaderCache' = {}
           /\ rsPsos' = {}
    ]_vars

\* A clear has just destroyed two PSOs.
C4_Witness ==
    /\ last.op = "clear"
    /\ Len(rsCalls) >= 2
    /\ rsCalls[1].arg # rsCalls[2].arg

\* C10: a dispatch that misses the PSO cache with a job whose shape has a
\* zero product at the end of the expansion ends with the invalid-parameters
\* error, having called nothing on the render system (no created hook, no
\* binding, no dispatch), and leaves the job's index out of bounds.
C10_ZeroShapeRaisesInvalidParams ==
    ( /\ last.op = "dispatch" /\ last.path = "miss"
      /\ ZeroShapeAfterExpansion(last.job) )
    => /\ last.outcome = "invalid_params"
       /\ rsCalls = << >>
       /\ IndexOutOfBounds(last.job)

\* C11: a dispatch that compiled a template in which a stage reported a
\* failure ends without error, with the failure logged, with a PSO entry
\* that carries no compute shader, and with no GPU program created from the
\* expanded text nor registered under its hash.
C11_SyntaxErrorYieldsNoProgram ==
    ( /\ last.op = "dispatch" /\ last.path = "miss"
      /\ SourceSyntaxError(jobs[last.job].mSourceFilename) )
    => /\ last.outcome = "ok"
       /\ ~crashed
       /\ last.log = << SyntaxErrorMessage >>
       /\ ~IndexOutOfBounds(last.job)
       /\ LET e == mComputeShaderCache[jobs[last.job].mPsoCacheHash + 1]
          IN /\ e.pso.computeShader = NullProgram
             /\ \A g \in gpuPrograms : g.text # EntryText(e)
             /\ ~CompiledShaderFound(mCompiledShaderCache,
                                     Hash128(EntryText(e)))

\* C13: in every state no two entries of the PSO cache have equal property
\* vectors: from one clear to the next a property vector is compiled into an
\* entry at most once, whichever jobs are dispatched with it.
C13_OneEntryPerFingerprint ==
    \A i, j \in 1..Len(mComputeShaderCache) :
        mComputeShaderCache[i].setProperties = mComputeShaderCache[j].setProperties
          => i = j

\* Two jobs with equal property vectors have both been dispatched, and the
\* cache holds the one entry they share.
C13_Witness ==
    /\ last.op = "dispatch" /\ last.path = "hit"
    /\ Len(jobs) = 2
    /\ Len(mComputeShaderCache) = 1
    /\ jobs[1].mPsoCacheHash = 0
    /\ jobs[2].mPsoCacheHash = 0

\* C14: any two entries of the PSO cache that were compiled, with the stage
\* enabled, from templates that expanded to different texts hold two
\* different program handles, each a program the HLMS created from the
\* entry's text and registered under the hash of that text.
C14_DifferentTextDistinctPrograms ==
    \A i, j \in 1..Len(mComputeShaderCache) :
        LET a == mComputeShaderCache[i]
            b == mComputeShaderCache[j]
        IN ( /\ EntryEnabled(a) /\ EntryEnabled(b)
             /\ EntryText(a) # EntryText(b) )
           => /\ a.pso.computeShader # b.pso.computeShader
              /\ \A e \in {a, b} :
                    /\ e.pso.computeShader.kind = "program"
                    /\ \E g \in gpuPrograms :
                          g.id = e.pso.computeShader.id /\ g.text = EntryText(e)
                    /\ [hash |-> Hash128(EntryText(e)),
                        shader |-> e.pso.computeShader] \in mCompiledShaderCache

\* The text the template of job h expands to in a compile made now.
ExpandedText(h) ==
    ParseTemplate(jobs[h].mSourceFilename,
                  RsProperties(UpdateAutoProperties(jobs[h]))).outString

\* C15: a dispatch that compiles, with the stage enabled, a text whose hash
\* is not in the program cache does not die on a read of a missing cache
\* entry; it creates exactly one GPU program, from that text, registers it
\* under the text's hash, and, when the compile returns a PSO, that PSO
\* holds the new program.
C15_MissCreatesAndRegisters ==
    [][\A h \in Handles :
          ( /\ last'.op = "dispatch" /\ last'.job = h /\ last'.path = "miss"
            /\ last'.stage = "enabled"
            /\ ~CompiledShaderFound(mCompiledShaderCache,
                                    Hash128(ExpandedText(h))) )
          => /\ last'.outcome # "crash"
             /\ ~crashed'
             /\ \E g \in gpuPrograms' \ gpuPrograms :
                   /\ gpuPrograms' = gpuPrograms \cup {g}
                   /\ g.text = ExpandedText(h)
                   /\ mCompiledShaderCache' =
                        mCompiledShaderCache \cup
                          {[hash |-> Hash128(ExpandedText(h)),
                            shader |-> [kind |-> "program", id |-> g.id]]}
                   /\ last'.outcome = "ok"
                        => mComputeShaderCache'[Len(mComputeShaderCache')]
                              .pso.computeShader
                             = [kind |-> "program", id |-> g.id]
    ]_vars

\* The disable-stage property is non-zero at the end of the expansion of the
\* template of job h in a compile made now.
StageDisabledAfterExpansion(h) ==
    GetProperty(ParseTemplate(jobs[h].mSourceFilename,
                    RsProperties(UpdateAutoProperties(jobs[h]))).props,
                DisableStage) # 0

C17_DisableFlagIsResetAfterEachCompile ==
    /\ GetProperty(mSetProperties, DisableStage) = 0
    /\ ( /\ last.op = "dispatch" /\ last.path = "miss"
         /\ \A p \in 1..Len(SourcePsets(jobs[last.job].mSourceFilename)) :
               SourcePsets(jobs[last.job].mSourceFilename)[p][1] # DisableStage )
       => last.stage = "enabled"

\* A job whose template disables the stage was dispatched and its compile
\* aborted on the zero shape; then a job whose template does not set the
\* flag was compiled, with its stage enabled.
C17_Witness ==
    /\ Len(jobs) = 2
    /\ jobs[1].mSourceFilename = "Skip.glsl"
    /\ ZeroShapeAfterExpansion(1)
    /\ jobs[1].mSetProperties = UpdateAutoProperties(jobs[1])
    /\ jobs[1].mSetProperties # SetProperties(<< >>, jobs[1].sets)
    /\ last.op = "dispatch" /\ last.path = "miss" /\ last.job = 2
    /\ jobs[2].mSourceFilename = "Fill.glsl"
    /\ last.stage = "enabled"
    /\ GetProperty(mSetProperties, DisableStage) = 0

\* The names of the render-system calls of each group.
ConstBindCalls == {"ConstBufferPacked::bindBufferCS"}
TextureBindCalls == {"TexBufferPacked::bindBufferCS", "_setTexture", "_setHlmsSamplerblock"}
UavBindCalls == {"UavBufferPacked::bindBufferCS", "_bindTextureUavCS"}

\* The group a call belongs to: 0 the created hook, 1 constant buffers,
\* 2 textures, 3 UAVs, 4 the PSO, 5 the dispatch.
CallGroup(c) ==
    IF c.call \in ConstBindCalls THEN 1
    ELSE IF c.call \in TextureBindCalls THEN 2
    ELSE IF c.call \in UavBindCalls THEN 3
    ELSE IF c.call = "_setComputePso" THEN 4
    ELSE IF c.call = "_dispatch" THEN 5
    ELSE 0

\* The calls of a group, in the order they were made.
CallsOfGroup(g) == SelectSeq(rsCalls, LAMBDA c : CallGroup(c) = g)

\* The names of the calls made for slot s in a group, in order.
SlotCallNames(g, s) ==
    LET calls == SelectSeq(rsCalls, LAMBDA c : CallGroup(c) = g /\ c.arg = s)
    IN [i \in 1..Len(calls) |-> calls[i].call]

\* C18: the render-system calls of a dispatch that did not abort are, in
\* this order: the constant-buffer binds, the texture-slot binds, the UAV
\* slot binds, the set of the PSO, and one dispatch call, the last call of
\* all (after the created hook, when the dispatch compiled). Every constant
\* buffer is bound once; every texture slot takes the buffer bind alone when
\* it has a buffer and the texture followed by its sampler block otherwise;
\* every UAV slot takes the buffer bind alone when it has a buffer and the
\* texture bind alone otherwise.
C18_BindOrderThenOneDispatch ==
    (last.op = "dispatch" /\ last.outcome = "ok")
    => /\ \A i, j \in 1..Len(rsCalls) :
              i < j => CallGroup(rsCalls[i]) <= CallGroup(rsCalls[j])
       /\ Len(CallsOfGroup(0)) = (IF last.path = "miss" THEN 1 ELSE 0)
       /\ Len(CallsOfGroup(4)) = 1
       /\ Len(CallsOfGroup(5)) = 1
       /\ rsCalls[Len(rsCalls)].call = "_dispatch"
       /\ Len(CallsOfGroup(1)) = Len(JobConstBuffers)
       /\ \A k \in 1..Len(JobConstBuffers) :
              SlotCallNames(1, JobConstBuffers[k].slotIdx)
                = << "ConstBufferPacked::bindBufferCS" >>
       /\ \A k \in 1..Len(JobTextureSlots) :
              SlotCallNames(2, JobTextureSlots[k].slotIdx)
                = IF JobTextureSlots[k].buffer
                  THEN << "TexBufferPacked::bindBufferCS" >>
                  ELSE << "_setTexture", "_setHlmsSamplerblock" >>
       /\ \A k \in 1..Len(JobUavSlots) :
              SlotCallNames(3, JobUavSlots[k].slotIdx)
                = IF JobUavSlots[k].buffer
                  THEN << "UavBufferPacked::bindBufferCS" >>
                  ELSE << "_bindTextureUavCS" >>
       /\ \A i \in 1..Len(rsCalls) :
              /\ CallGroup(rsCalls[i]) = 2
                   => \E k \in 1..Len(JobTextureSlots) :
                         JobTextureSlots[k].slotIdx = rsCalls[i].arg
              /\ CallGroup(rsCalls[i]) = 3
                   => \E k \in 1..Len(JobUavSlots) :
                         JobUavSlots[k].slotIdx = rsCalls[i].arg

\* A dispatch that found its PSO in the cache has made its bindings and its
\* one dispatch call, the last of them.
C18_Witness ==
    /\ last.op = "dispatch" /\ last.path = "cached" /\ last.outcome = "ok"
    /\ Len(rsCalls) = Len(JobConstBuffers) + 3 + 2 + 2
    /\ rsCalls[Len(rsCalls)].call = "_dispatch"
    /\ rsCalls[Len(rsCalls) - 1].call = "_setComputePso"

\* C24: right after destroyAllComputeJobs the PSO cache holds no entry and
\* the render system holds no PSO of the cache (each one has been passed to
\* the destroyed hook).
C24_DestroyAllDestroysPsoCache ==
    last.op = "destroyAll"
        => /\ mComputeShaderCache = << >>
           /\ rsPsos = {}

\* The job createComputeJob registered under a name and destroyAllComputeJobs
\* has not destroyed since: the latest job created with the name, when it is
\* still alive.
JobsNamed(name) == {h \in Handles : jobs[h].mName = name}

LatestNamed(name) == CHOOSE h \in JobsNamed(name) : \A k \in JobsNamed(name) : k <= h

RegisteredUnder(name) ==
    IF JobsNamed(name) # {} /\ jobs[LatestNamed(name)].alive
    THEN LatestNamed(name) ELSE 0

\* C25: findComputeJob(name) returns the job registered under the name and
\* raises item-not-found when there is none; findComputeJobNoThrow returns
\* the same job, or null without raising; neither changes the job map.
C25_LookupsFindTheRegisteredJob ==
    [][ \A name \in JobNames :
          /\ FindComputeJob(name)
                => /\ last'.job = RegisteredUnder(name)
                   /\ last'.outcome = IF RegisteredUnder(name) = 0
                                      THEN "item_not_found" ELSE "ok"
                   /\ mComputeJobs' = mComputeJobs
          /\ FindComputeJobNoThrow(name)
                => /\ last'.job = RegisteredUnder(name)
                   /\ last'.outcome = "ok"
                   /\ mComputeJobs' = mComputeJobs
    ]_vars

\* findComputeJob has returned the second of two jobs created with one name.
C25_Witness ==
    /\ last.op = "find"
    /\ last.outcome = "ok"
    /\ Cardinality(JobsNamed(jobs[last.job].mName)) = 2

\* C26: a dispatch whose search misses appends exactly one entry to the PSO
\* cache, keyed by a copy of the job's property set, and the job's index
\* becomes the index of that entry; a dispatch whose search hits, or whose
\* index was in bounds on entry, leaves the PSO cache and the program cache
\* as they were and creates no program.
C26_MissAppendsOneHitAppendsNone ==
    [][ last'.op = "dispatch"
        => /\ last'.path = "miss"
                => /\ Len(mComputeShaderCache') = Len(mComputeShaderCache) + 1
                   /\ SubSeq(mComputeShaderCache', 1, Len(mComputeShaderCache))
                        = mComputeShaderCache
                   /\ mComputeShaderCache'[Len(mComputeShaderCache')].setProperties
                        = jobs'[last'.job].mSetProperties
                   /\ jobs'[last'.job].mPsoCacheHash
                        = Len(mComputeShaderCache') - 1
           /\ last'.path \in {"hit", "cached"}
                => /\ mComputeShaderCache' = mComputeShaderCache
                   /\ mCompiledShaderCache' = mCompiledShaderCache
                   /\ gpuPrograms' = gpuPrograms
    ]_vars

\* A miss has appended a second entry, next to another job's.
C26_Witness ==
    /\ last.op = "dispatch" /\ last.path = "miss" /\ last.outcome = "ok"
    /\ Len(mComputeShaderCache) = 2
    /\ mComputeShaderCache[1].job # last.job
    /\ jobs[last.job].mPsoCacheHash = 1

\* C26, for the dispatches that return: a miss whose compile returns
\* appends exactly one entry, keyed by a copy of the job's property set, and
\* stores its index in the job; a hit and a dispatch with its index in bounds
\* change neither cache and create no program. (A compile that ends with the
\* zero-dispatch error, or that brings the process down at line 230, appends
\* nothing.)
C26_ReturnedMissAppendsOne ==
    [][ ( last'.op = "dispatch" /\ last'.outcome = "ok" )
        => /\ last'.path = "miss"
                => /\ Len(mComputeShaderCache') = Len(mComputeShaderCache) + 1
                   /\ SubSeq(mComputeShaderCache', 1, Len(mComputeShaderCache))
                        = mComputeShaderCache
                   /\ mComputeShaderCache'[Len(mComputeShaderCache')].setProperties
                        = jobs'[last'.job].mSetProperties
                   /\ jobs'[last'.job].mPsoCacheHash
                        = Len(mComputeShaderCache') - 1
           /\ last'.path \in {"hit", "cached"}
                => /\ mComputeShaderCache' = mComputeShaderCache
                   /\ mCompiledShaderCache' = mCompiledShaderCache
                   /\ gpuPrograms' = gpuPrograms
    ]_vars

\* C29: in the state every operation leaves (no job exists before the first
\* one) the invalid sentinel is, as an unsigned number, greater than or
\* equal to the size of the PSO cache; so a dispatch
\* of a job whose index is the sentinel takes the branch that searches the
\* cache (a miss or a hit of the search) and never reads the cache at the
\* sentinel.
C29_SentinelIsOutOfBounds ==
    [][ /\ \A h \in Handles' :
              jobs'[h].mPsoCacheHash = InvalidPsoCacheHash
                 => IndexOutOfBounds(h)'
        /\ ( /\ last'.op = "dispatch"
              /\ jobs[last'.job].mPsoCacheHash = InvalidPsoCacheHash )
              => last'.path \in {"miss", "hit"}
    ]_vars

\* A job whose index is the sentinel has been dispatched while the cache
\* held an entry, and the search found that entry.
C29_Witness ==
    /\ last.op = "dispatch" /\ last.path = "hit"
    /\ Cardinality({h \in Handles : jobs[h].mPsoCacheHash = 0}) = 2
    /\ Len(mComputeShaderCache) = 1


\* C33: over jobs whose properties do not change, every dispatch that
\* issues a compute dispatch sets a PSO of a cache entry whose key equals
\* the property set of the dispatched job, whatever dispatches and cache
\* clears came before.
C33_DispatchRunsPsoOfOwnProperties ==
    [][ ( last'.op = "dispatch" /\ last'.outcome = "ok" )
        => \E i \in 1..Len(mComputeShaderCache') :
              /\ mComputeShaderCache'[i].setProperties
                    = UpdateAutoProperties(jobs'[last'.job])
              /\ \E k \in 1..Len(rsCalls') :
                    rsCalls'[k] = Call("_setComputePso",
                                       mComputeShaderCache'[i].pso.rsData)
    ]_vars


\* One of the six dimension properties of job h is zero at the end of the
\* expansion.
SomeDimensionIsZero(h) ==
    LET props == ParseTemplate(jobs[h].mSourceFilename,
                     RsProperties(UpdateAutoProperties(jobs[h]))).props
    IN \E key \in {ThreadsPerGroupX, ThreadsPerGroupY, ThreadsPerGroupZ,
                   NumThreadGroupsX, NumThreadGroupsY, NumThreadGroupsZ} :
          GetProperty(props, key) = 0

\* C34: a dispatch ends with the invalid-parameters error of the shape check
\* only when one of the six dimension properties is zero; with six non-zero
\* dimensions, the two products taken modulo 2^32, it never does.
C34_ZeroShapeErrorOnlyForZeroDimension ==
    ( last.op = "dispatch" /\ last.outcome = "invalid_params" )
    => SomeDimensionIsZero(last.job)


\* C35: when a dispatch whose index was out of bounds ends, by a hit, by a
\* successful compile or by a compile that raised the shape error, the
\* job's property set is the one _updateAutoProperties gave it at the start
\* of the dispatch, the properties of the other jobs are as they were, and
\* every entry the cache held has the key it had.
C35_BorrowedPropertiesAreGivenBack ==
    [][ ( /\ last'.op = "dispatch"
          /\ last'.path \in {"hit", "miss"}
          /\ last'.outcome \in {"ok", "invalid_params"} )
        => /\ jobs'[last'.job].mSetProperties
                 = UpdateAutoProperties(jobs[last'.job])
           /\ \A h \in Handles \ {last'.job} :
                 jobs'[h].mSetProperties = jobs[h].mSetProperties
           /\ Len(mComputeShaderCache') >= Len(mComputeShaderCache)
           /\ \A i \in 1..Len(mComputeShaderCache) :
                 mComputeShaderCache'[i].setProperties
                    = mComputeShaderCache[i].setProperties
    ]_vars

\* A compile has been aborted by the shape error while the cache held an
\* entry: the job has its refreshed properties, shape included.
C35_Witness ==
    /\ last.op = "dispatch" /\ last.outcome = "invalid_params"
    /\ Len(mComputeShaderCache) = 1
    /\ mComputeShaderCache[1].job # last.job
    /\ jobs[last.job].mSetProperties = UpdateAutoProperties(jobs[last.job])
    /\ GetProperty(jobs[last.job].mSetProperties, ThreadsPerGroupX) # 0


\* C36: in every state the job of every PSO cache entry is alive, and no
\* clearShaderCache has written the index of a destroyed job.
C36_CacheEntriesReferToLiveJobs ==
    /\ \A i \in 1..Len(mComputeShaderCache) :
          jobs[mComputeShaderCache[i].job].alive
    /\ ~(last.op = "clear" /\ last.outcome = "crash")


\* C38: right after destroyAllComputeJobs every job createComputeJob has
\* returned is destroyed, a job whose name a later createComputeJob took
\* included, and the job map is empty.
C38_DestroyAllDestroysEveryJob ==
    last.op = "destroyAll"
        => /\ \A h \in Handles : ~jobs[h].alive
           /\ \A n \in JobNames : mComputeJobs[n] = 0


NullNode == 0
\* SceneManager::getRootSceneNode( sceneNodeType )
RootSceneNode(sceneNodeType) == IF sceneNodeType = "SCENE_STATIC" THEN 0 - 2 ELSE 0 - 1

\* The elements of a scene_nodes array.  An element is a JSON object or not;
\* an object has a "node" object member or not; parent_id and is_static are
\* members of the node object.  is_root_node says where a true is_root_node
\* is written: as a member of the scene_nodes element ("scene_node"), as a
\* member of its node object ("node"), or nowhere ("none").
NotAnObject ==
    [ isObject |-> FALSE, hasNode |-> FALSE, hasParentId |-> FALSE,
      parent_id |-> 0, is_static |-> FALSE, is_root_node |-> "none" ]
ObjectWithoutNode == [NotAnObject EXCEPT !.isObject = TRUE]

SceneNodeElements ==
    {NotAnObject, ObjectWithoutNode} \cup
    { [ isObject |-> TRUE, hasNode |-> TRUE, hasParentId |-> TRUE,
        parent_id |-> p, is_static |-> st, is_root_node |-> r ] :
        p \in 0..MaxNodes, st \in BOOLEAN, r \in {"none", "scene_node", "node"} }
    \cup
    { [ isObject |-> TRUE, hasNode |-> TRUE, hasParentId |-> FALSE,
        parent_id |-> 0, is_static |-> st, is_root_node |-> r ] :
        st \in BOOLEAN, r \in {"none", "scene_node", "node"} }

\* The render queue of a new movable object, and the one the documents ask
\* for.
DefaultRenderQueue == 0
RenderQueues == {1}

\* The items of a document: an item has a movable_object whose
\* parent_node_id is the first index or an index past the array, and which
\* asks for a render queue.
ItemElements ==
    { [parent_node_id |-> id, render_queue |-> rq] :
        id \in {0, MaxNodes}, rq \in RenderQueues }

Documents ==
    { [scene_nodes |-> nodes, items |-> items] :
        nodes \in [1..MaxNodes -> SceneNodeElements],
        items \in [1..MaxItems -> ItemElements] }

\* The state an import works on.  "error" is NoError until an exception is
\* thrown; "ret" is what the latest importSceneNode call returned; "calls"
\* lists the indices importSceneNode was entered for.
ImportState(created, nodes) ==
    [ created |-> created, nodes |-> nodes, error |-> NoError, ret |-> NullNode,
      calls |-> << >> ]

\* mCreatedSceneNodes.find( idx ) != mCreatedSceneNodes.end()
IsCreated(created, idx) == idx \in DOMAIN created

\* A createChildSceneNode that leaves the new node without parent.
CreateChildSceneNodeLoose(nodes, parentNode, sceneNodeType, nodeIdx) ==
    Append(nodes, [parent |-> NullNode, type |-> sceneNodeType,
                   index |-> nodeIdx])

\* parentNode->createChildSceneNode( sceneNodeType ): a new node under
\* parentNode, made for the element nodeIdx.
CreateChildSceneNode(nodes, parentNode, sceneNodeType, nodeIdx) ==
    Append(nodes, [parent |-> parentNode, type |-> sceneNodeType,
                   index |-> nodeIdx])

\* A createSceneNode that hangs the new node under the root node.
CreateSceneNodeUnderRoot(nodes, sceneNodeType, nodeIdx) ==
    Append(nodes, [parent |-> RootSceneNode(sceneNodeType),
                   type |-> sceneNodeType, index |-> nodeIdx])

\* mSceneManager->createSceneNode( sceneNodeType ): a new node without parent.
CreateSceneNode(nodes, sceneNodeType, nodeIdx) ==
    Append(nodes, [parent |-> NullNode, type |-> sceneNodeType,
                   index |-> nodeIdx])

\* A return that leaves the map of created nodes as it was.
ForgetNode(st, nodeIdx, sceneNode, nodes) ==
    [ st EXCEPT !.nodes = nodes, !.ret = sceneNode ]

\* Lines 225-227: the node's transform is imported and the node is recorded.
RecordNode(st, nodeIdx, sceneNode, nodes) ==
    [ st EXCEPT !.created = (nodeIdx :> sceneNode) @@ st.created,
                !.nodes = nodes,
                !.ret = sceneNode ]

\* A return of the null pointer where the exception is thrown.
ReturnNullNode(st, nodeIdx) == [st EXCEPT !.ret = NullNode]

\* OGRE_EXCEPT( Exception::ERR_ITEM_NOT_FOUND, ... ) in the call for nodeIdx.
ThrowItemNotFound(st, nodeIdx) ==
    [st EXCEPT !.error = ImportEnd("ERR_ITEM_NOT_FOUND", nodeIdx),
               !.ret = NullNode]

RECURSIVE ImportSceneNode(_, _, _, _)
\* importSceneNode( sceneNodesJson[nodeIdx], nodeIdx, sceneNodesJson ), called
\* at recursion depth "depth".  A call chain longer than the array visits an
\* index twice and so never ends: the recursion then exhausts the stack.
ImportSceneNode(json, nodeIdx, st0, depth) ==
    LET sceneNodeValue == json[nodeIdx + 1]
        st == [st0 EXCEPT !.calls = Append(@, nodeIdx)]
        parentIdx == IF sceneNodeValue.hasParentId
                     THEN sceneNodeValue.parent_id ELSE nodeIdx
        sceneNodeType == IF sceneNodeValue.is_static
                         THEN "SCENE_STATIC" ELSE "SCENE_DYNAMIC"
    IN
    IF depth > Len(json)
    THEN [st0 EXCEPT !.error = ImportEnd("stack_overflow", nodeIdx),
                     !.ret = NullNode]
    ELSE IF ~sceneNodeValue.hasNode
    THEN ThrowItemNotFound(st, nodeIdx)
    ELSE IF parentIdx # nodeIdx
    THEN
        IF ~IsCreated(st.created, parentIdx)
        THEN
            \* Our parent node will be created after us. Initialize it now.
            IF parentIdx < Len(json) /\ json[parentIdx + 1].isObject
            THEN
                LET st2 == ImportSceneNode(json, parentIdx, st, depth + 1)
                IN IF st2.error # NoError THEN st2
                   ELSE RecordNode(st2, nodeIdx, Len(st2.nodes) + 1,
                            CreateChildSceneNode(st2.nodes, st2.ret,
                                                 sceneNodeType, nodeIdx))
            ELSE ThrowItemNotFound(st, nodeIdx)
        ELSE
            \* Parent was already created
            RecordNode(st, nodeIdx, Len(st.nodes) + 1,
                CreateChildSceneNode(st.nodes, st.created[parentIdx],
                                     sceneNodeType, nodeIdx))
    ELSE
        \* Has no parent. Could be root scene node, or a loose node.
        LET isRootNode == sceneNodeValue.is_root_node = "scene_node"
        IN IF isRootNode
           THEN RecordNode(st, nodeIdx, RootSceneNode(sceneNodeType), st.nodes)
           ELSE RecordNode(st, nodeIdx, Len(st.nodes) + 1,
                    CreateSceneNode(st.nodes, sceneNodeType, nodeIdx))

\* A test that takes every object element, created or not.
NeedsImportAlways(json, nodeIdx, created) == json[nodeIdx + 1].isObject

\* Lines 249-250: itor->value.IsObject() &&
\* mCreatedSceneNodes.find( nodeIdx ) == mCreatedSceneNodes.end()
NeedsImport(json, nodeIdx, created) ==
    json[nodeIdx + 1].isObject /\ ~IsCreated(created, nodeIdx)

RECURSIVE ImportSceneNodesFrom(_, _, _)
\* The loop of importSceneNodes from element nodeIdx on; an exception ends it.
\* The loop is written with rapidjson's member iterators; it is taken to
\* visit the elements of the array in order, itor->value being the element
\* and itor - begin its index.
ImportSceneNodesFrom(json, nodeIdx, st) ==
    IF nodeIdx >= Len(json) \/ st.error # NoError THEN st
    ELSE IF NeedsImport(json, nodeIdx, st.created)
         THEN ImportSceneNodesFrom(json, nodeIdx + 1,
                  ImportSceneNode(json, nodeIdx, st, 1))
         ELSE ImportSceneNodesFrom(json, nodeIdx + 1, st)

ImportSceneNodes(json, st) == ImportSceneNodesFrom(json, 0, st)

\* importItems with importMovableObject: every item is created; it is
\* attached to the node of its parent_node_id when that node was created,
\* and a warning is logged when it was not.
\* An importMovableObject that returns once it has logged the warning.
ImportMovableObjectUntilWarning(value, created) ==
    IF IsCreated(created, value.parent_node_id)
    THEN [attachedTo |-> created[value.parent_node_id], warning |-> FALSE,
          renderQueue |-> value.render_queue]
    ELSE [attachedTo |-> NullNode, warning |-> TRUE,
          renderQueue |-> DefaultRenderQueue]

\* importMovableObject( movableObjectValue, movableObject ): the node the
\* object is attached to (lines 268-281), whether the warning is logged, and
\* the render queue the object ends with (lines 283-288).
ImportMovableObject(value, created) ==
    [attachedTo |-> IF IsCreated(created, value.parent_node_id)
                    THEN created[value.parent_node_id] ELSE NullNode,
     warning |-> ~IsCreated(created, value.parent_node_id),
     renderQueue |-> value.render_queue]

\* importItems( json ): an item is created for every element and its
\* movable_object is imported.
ImportItems(json, created) ==
    [i \in 1..Len(json) |-> ImportMovableObject(json[i], created)]

\* importScene( filename, jsonString ) with the parsed document d.
ImportDocument(d) ==
    /\ imports' = imports + 1
    /\ LET st == ImportSceneNodes(d.scene_nodes,
                     ImportState(mCreatedSceneNodes, sceneNodes))
           items == ImportItems(d.items, st.created)
       IN /\ mCreatedSceneNodes' = st.created
          /\ sceneNodes' = st.nodes
          /\ importCalls' = importCalls \o st.calls
          /\ IF st.error = NoError
             THEN /\ sceneItems' = sceneItems \o
                        [i \in 1..Len(items) |->
                            [attachedTo |-> items[i].attachedTo,
                             renderQueue |-> items[i].renderQueue]]
                  /\ importLog' = importLog \o
                        [i \in 1..Cardinality({j \in 1..Len(items) : items[j].warning})
                            |-> "WARNING: MovableObject references SceneNode"]
                  /\ importResult' = ImportEnd("ok", 0)
             ELSE /\ importResult' = st.error
                  /\ UNCHANGED << sceneItems, importLog >>
    /\ UNCHANGED << hlmsVars, pieceVars, bufferVars, nodeVars, rsVars >>

\* The first import of an importer.
ImportScene ==
    /\ importResult = NoError
    /\ ImportDocument(document)
    /\ UNCHANGED document

\* Two imports by one importer: the second one is given another document.
\* The documents are those whose nodes are dynamic and whose items are the
\* same.
MaxImports == 2

ReimportDocuments ==
    { d \in Documents :
        /\ \A i \in 1..Len(d.scene_nodes) :
              /\ ~d.scene_nodes[i].is_static
              /\ d.scene_nodes[i].is_root_node # "node"
        /\ \A i \in 1..Len(d.items) : d.items[i] = d.items[1] }

ImportSceneAgain ==
    /\ importResult.code = "ok"
    /\ imports < MaxImports
    /\ \E d \in ReimportDocuments :
          /\ document' = d
          /\ ImportDocument(d)

InitReimport ==
    /\ InitHlms
    /\ InitImporter
    /\ InitPieces
    /\ InitBuffer
    /\ InitNode
    /\ InitRs
    /\ document \in ReimportDocuments

NextReimport == ImportScene \/ ImportSceneAgain

SpecReimport == InitReimport /\ [][NextReimport]_vars

InitImport ==
    /\ InitHlms
    /\ InitImporter
    /\ InitPieces
    /\ InitBuffer
    /\ InitNode
    /\ InitRs
    /\ document \in Documents

NextImport == ImportScene

SpecImport == InitImport /\ [][NextImport]_vars

(***************************************************************************)
(* Properties of SceneFormatImporter.                                      *)
(***************************************************************************)
Json == document.scene_nodes
Element(i) == Json[i + 1]
Indices == 0..(Len(Json) - 1)

\* The scene_nodes element i is an object with a node object.
HasNode(i) == Element(i).isObject /\ Element(i).hasNode

\* The parent index the importer reads for element i (line 179-182).
ParentIdx(i) == IF Element(i).hasParentId THEN Element(i).parent_id ELSE i

\* The type element i asks for with its own is_static.
TypeOf(i) == IF Element(i).is_static THEN "SCENE_STATIC" ELSE "SCENE_DYNAMIC"

\* importSceneNode was entered for element i.
Called(i) == \E k \in 1..Len(importCalls) : importCalls[k] = i

\* Element i names a parent that no import can construct: an index past the
\* array, or an element that is not an object.
Unresolvable(i) ==
    /\ HasNode(i)
    /\ ParentIdx(i) # i
    /\ (ParentIdx(i) >= Len(Json) \/ ~Element(ParentIdx(i)).isObject)

ExampleNode0 ==
    [ isObject |-> TRUE, hasNode |-> TRUE, hasParentId |-> TRUE,
      parent_id |-> 1, is_static |-> FALSE, is_root_node |-> "none" ]
ExampleNode1 ==
    [ isObject |-> TRUE, hasNode |-> TRUE, hasParentId |-> TRUE,
      parent_id |-> 1, is_static |-> FALSE, is_root_node |-> "node" ]

\* C6: the import of the example ends without error with the scene manager's
\* root node recorded for node 1 and, recorded for node 0, a new node whose
\* parent is that root node.
C6_ExampleAttachesToRoot ==
    ( /\ importResult.code # "none"
      /\ Json[1] = ExampleNode0 /\ Json[2] = ExampleNode1 )
    => /\ importResult.code = "ok"
       /\ mCreatedSceneNodes[1] = RootSceneNode("SCENE_DYNAMIC")
       /\ mCreatedSceneNodes[0] \in 1..Len(sceneNodes)
       /\ sceneNodes[mCreatedSceneNodes[0]].parent = mCreatedSceneNodes[1]

FreshImport(d) == ImportSceneNodes(d.scene_nodes, ImportState(<< >>, << >>))

\* C37: the second import of an importer enters importSceneNode for the
\* indices, creates as many nodes and ends as the import of the same
\* document by an importer that has imported nothing.
C37_ImportDependsOnDocumentOnly ==
    [][ imports' = MaxImports
        => /\ SubSeq(importCalls', Len(importCalls) + 1, Len(importCalls'))
                 = FreshImport(document').calls
           /\ Len(sceneNodes') - Len(sceneNodes)
                 = Len(FreshImport(document').nodes)
           /\ ( importResult'.code = "ok" )
                 = ( FreshImport(document').error = NoError )
    ]_vars

\* C9: an import of an array in which element 0 names element 1 as its
\* parent and element 1 names element 0 ends, and ends with an exception
\* the importer raised.
C9_CycleIsReported ==
    ( /\ importResult.code # "none"
      /\ HasNode(0) /\ ParentIdx(0) = 1
      /\ HasNode(1) /\ ParentIdx(1) = 0 )
    => importResult.code = "ERR_ITEM_NOT_FOUND"

(***************************************************************************)
(* The template stages of HlmsCompute::compileShader (lines 155-225), the  *)
(* piece loop one iteration at a time.                                     *)
(*                                                                         *)
(* A text is a sequence of tokens: plain text, an @insertpiece( name )     *)
(* marker, or an @piece( name ) ... @end block with the text it encloses.  *)
(***************************************************************************)
\* Number of tokens of a main source file.
MaxTokens == 2

Text == [kind |-> "text", name |-> "", body |-> << >>]
InsertPiece(name) == [kind |-> "insertpiece", name |-> name, body |-> << >>]
Piece(name, body) == [kind |-> "piece", name |-> name, body |-> body]

\* The texts a piece can enclose: nothing, plain text, one marker, two
\* markers.
PieceBodies ==
    {<< >>, << Text >>}
      \cup {<< InsertPiece(n) >> : n \in PieceNames}
      \cup {<< InsertPiece(n), InsertPiece(m) >> : n, m \in PieceNames}

Tokens ==
    {Text} \cup {InsertPiece(n) : n \in PieceNames}
           \cup {Piece(n, b) : n \in PieceNames, b \in PieceBodies}

\* The main source files: the texts of 1 to MaxTokens tokens.
Templates == UNION {[1..n -> Tokens] : n \in 1..MaxTokens}

DefinedPiece(body) == [defined |-> TRUE, text |-> body]

\* What processPieces left in mPieces from the job's piece files: nothing, a
\* piece that inserts itself, two pieces that insert each other, a piece
\* that inserts itself twice.
PieceFiles ==
    { [n \in PieceNames |-> UndefinedPiece],
      [n \in PieceNames |->
          IF n = "a" THEN DefinedPiece(<< InsertPiece("a") >>)
                     ELSE UndefinedPiece],
      [n \in PieceNames |->
          IF n = "a" THEN DefinedPiece(<< InsertPiece("b") >>)
                     ELSE DefinedPiece(<< InsertPiece("a") >>)],
      [n \in PieceNames |->
          IF n = "a" THEN DefinedPiece(<< InsertPiece("a"), InsertPiece("a") >>)
                     ELSE DefinedPiece(<< Text >>)] }

RECURSIVE UnresolvedMarkers(_)
\* The number of @piece and @insertpiece markers in a text.
UnresolvedMarkers(text) ==
    IF text = << >> THEN 0
    ELSE (IF Head(text).kind = "text" THEN 0
          ELSE 1 + UnresolvedMarkers(Head(text).body))
         + UnresolvedMarkers(Tail(text))

RECURSIVE CollectPieces(_, _)
\* Hlms::collectPieces( inBuffer, outBuffer ): every @piece block of the
\* text goes into the mapping under its name and out of the text.
CollectPieces(inBuffer, pieces) ==
    IF inBuffer = << >> THEN [outBuffer |-> << >>, pieces |-> pieces]
    ELSE LET token == Head(inBuffer)
         IN IF token.kind = "piece"
            THEN CollectPieces(Tail(inBuffer),
                     [pieces EXCEPT ![token.name] = DefinedPiece(token.body)])
            ELSE LET rest == CollectPieces(Tail(inBuffer), pieces)
                 IN [outBuffer |-> << token >> \o rest.outBuffer,
                     pieces |-> rest.pieces]

RECURSIVE InsertPieces(_, _)
\* Hlms::insertPieces( inBuffer, outBuffer ): every @insertpiece marker is
\* replaced by the text of the piece it names, by nothing when there is no
\* such piece.
InsertPieces(inBuffer, pieces) ==
    IF inBuffer = << >> THEN << >>
    ELSE (IF Head(inBuffer).kind = "insertpiece"
          THEN pieces[Head(inBuffer).name].text
          ELSE << Head(inBuffer) >>)
         \o InsertPieces(Tail(inBuffer), pieces)

\* The failure the two stages of one iteration report: the iteration left
\* as many unresolved markers as it found, or more.
FailedToShrink(before, after) ==
    UnresolvedMarkers(after) >= UnresolvedMarkers(before)

\* A loop condition that does not look at the flag.
PieceLoopContinuesOnMarkers(flag, text) == UnresolvedMarkers(text) > 0

\* Lines 190-191: !syntaxError && (outString.find( "@piece" ) != npos ||
\* outString.find( "@insertpiece" ) != npos)
PieceLoopContinues(flag, text) == ~flag /\ UnresolvedMarkers(text) > 0

\* A stage that reads the file again, whatever the earlier calls wrote.
NoHolder(log, buffer) == 0

\* What a buffer holds when a call reads it: the output of the latest call
\* of the log that wrote the buffer, 0 (the text read from the file) when
\* none did.
Holder(log, buffer) ==
    LET writers == {i \in 1..Len(log) : log[i].writes = buffer}
    IN IF writers = {} THEN 0
       ELSE CHOOSE i \in writers : \A k \in writers : k <= i

\* A run of stage calls, first to last, each one
\* << stage, file, buffer read, buffer written, failure flag returned >>.
\* A call reads what the latest earlier call of the run wrote to its buffer,
\* or what the log's calls left there.
StageCalls(log, calls) ==
    log \o [n \in 1..Len(calls) |->
              [stage |-> calls[n][1], file |-> calls[n][2],
               reads |->
                  LET prior == {k \in 1..(n - 1) : calls[k][4] = calls[n][3]}
                  IN IF prior = {} THEN Holder(log, calls[n][3])
                     ELSE Len(log) + CHOOSE k \in prior : \A m \in prior : m <= k,
               writes |-> calls[n][4], failed |-> calls[n][5]]]

\* Lines 155-177: the render-system flags are set, mPieces is cleared, and
\* processPieces runs the stages on the job's piece file (lines 137-141),
\* dropping what each of them returns. The job has no piece file when
\* processPieces leaves mPieces empty.
ProcessPieces ==
    /\ piecePc = "begin"
    /\ \E pieces \in PieceFiles, failed \in BOOLEAN :
          /\ mPieces' = pieces
          /\ pieceStages' =
                IF \A n \in PieceNames : pieces[n] = UndefinedPiece
                THEN StageCalls(pieceStages,
                        << <<"setProperty", "none", "none", "mSetProperties",
                             FALSE>> >>)
                ELSE StageCalls(pieceStages,
                        << <<"setProperty", "none", "none", "mSetProperties",
                             FALSE>>,
                           <<"parseMath", "piece", "piece.inString",
                             "piece.outString", FALSE>>,
                           <<"parseForEach", "piece", "piece.outString",
                             "piece.inString", FALSE>>,
                           <<"parseProperties", "piece", "piece.inString",
                             "piece.outString", failed>>,
                           <<"collectPieces", "piece", "piece.outString",
                             "piece.inString", FALSE>>,
                           <<"parseCounter", "piece", "piece.inString",
                             "piece.outString", FALSE>> >>)
    /\ piecePc' = "parse"
    /\ UNCHANGED << pieceOutString, pieceSyntaxError, pieceIteration, hlmsVars,
                    importVars, bufferVars, nodeVars, rsVars >>

\* Lines 187-189: parseMath, parseForEach and parseProperties, each of which
\* can report a failure.
ParseBeforePieces ==
    /\ piecePc = "parse"
    /\ \E failed \in BOOLEAN :
          /\ pieceSyntaxError' = failed
          /\ pieceStages' =
                StageCalls(pieceStages,
                    << <<"parseMath", "main", "inString", "outString", failed>>,
                       <<"parseForEach", "main", "outString", "inString", FALSE>>,
                       <<"parseProperties", "main", "inString", "outString",
                         FALSE>> >>)
    /\ piecePc' = "while"
    /\ UNCHANGED << pieceOutString, mPieces, pieceIteration, hlmsVars, importVars,
                    bufferVars, nodeVars, rsVars >>

\* The state an iteration of lines 192-195 leaves, given what the two
\* stages made.
PieceLoopStep(collected, inserted) ==
    /\ pieceOutString' = inserted
    /\ mPieces' = collected.pieces
    /\ pieceSyntaxError' = (pieceSyntaxError \/ FailedToShrink(pieceOutString, inserted))
    /\ pieceIteration' = [before |-> UnresolvedMarkers(pieceOutString),
                          after |-> UnresolvedMarkers(inserted)]
    /\ pieceStages' =
          StageCalls(pieceStages,
              << <<"collectPieces", "main", "outString", "inString", FALSE>>,
                 <<"insertPieces", "main", "inString", "outString",
                   pieceIteration'.after >= pieceIteration'.before>> >>)

\* Lines 192-195: one iteration of the loop.
PieceLoopCollected(collected) ==
    PieceLoopStep(collected, InsertPieces(collected.outBuffer, collected.pieces))

PieceLoopIteration ==
    /\ piecePc = "while"
    /\ PieceLoopContinues(pieceSyntaxError, pieceOutString)
    /\ PieceLoopCollected(CollectPieces(pieceOutString, mPieces))
    /\ UNCHANGED << piecePc, hlmsVars, importVars,
                    bufferVars, nodeVars, rsVars >>

\* Lines 196-225: the loop's condition is false; parseCounter runs, the two
\* buffers are swapped (outString is then what parseCounter wrote to
\* inString) and outString is hashed.
PieceLoopExit ==
    /\ piecePc = "while"
    /\ ~PieceLoopContinues(pieceSyntaxError, pieceOutString)
    /\ \E failed \in BOOLEAN :
          /\ pieceSyntaxError' = (pieceSyntaxError \/ failed)
          /\ pieceStages' =
                StageCalls(pieceStages,
                    << <<"parseCounter", "main", "outString", "inString", failed>>,
                       <<"hash", "main", "inString", "none", FALSE>> >>)
    /\ piecePc' = "done"
    /\ UNCHANGED << pieceOutString, mPieces, pieceIteration, hlmsVars,
                    importVars, bufferVars, nodeVars, rsVars >>

InitPieceLoop ==
    /\ InitHlms
    /\ InitImporter
    /\ InitBuffer
    /\ InitNode
    /\ InitRs
    /\ document = EmptyDocument
    /\ pieceOutString \in Templates
    /\ mPieces = [n \in PieceNames |-> UndefinedPiece]
    /\ pieceSyntaxError = FALSE
    /\ piecePc = "begin"
    /\ pieceStages = << >>
    /\ pieceIteration = NoIteration

NextPieces ==
    \/ ProcessPieces
    \/ ParseBeforePieces
    \/ PieceLoopIteration
    \/ PieceLoopExit

\* compileShader runs on one thread and nothing suspends it: a step that can
\* be taken is taken.
SpecPieces == InitPieceLoop /\ [][NextPieces]_vars /\ WF_vars(NextPieces)

UnattachableItems ==
    {i \in 1..Len(document.items) :
        ~IsCreated(mCreatedSceneNodes, document.items[i].parent_node_id)}

\* The calls that can follow one another in compileShader.
MainOrder ==
    { <<"parseMath", "parseForEach">>, <<"parseForEach", "parseProperties">>,
      <<"parseProperties", "collectPieces">>,
      <<"parseProperties", "parseCounter">>,
      <<"collectPieces", "insertPieces">>, <<"insertPieces", "collectPieces">>,
      <<"insertPieces", "parseCounter">>, <<"parseCounter", "hash">> }

PieceFileOrder ==
    { <<"parseMath", "parseForEach">>, <<"parseForEach", "parseProperties">>,
      <<"parseProperties", "collectPieces">>,
      <<"collectPieces", "parseCounter">> }

InStageOrder(prev, next) ==
    \/ /\ prev.stage = "setProperty"
       /\ next.stage = "parseMath"
    \/ /\ prev.file = "piece" /\ next.file = "piece"
       /\ <<prev.stage, next.stage>> \in PieceFileOrder
    \/ /\ prev.file = "piece" /\ prev.stage = "parseCounter"
       /\ next.file = "main" /\ next.stage = "parseMath"
    \/ /\ prev.file = "main" /\ next.file = "main"
       /\ <<prev.stage, next.stage>> \in MainOrder

C28_PieceFileFailureIsReported ==
    ( /\ piecePc = "done"
      /\ \E i \in 1..Len(pieceStages) : pieceStages[i].failed )
    => pieceSyntaxError

\* The number of calls of importSceneNode entered for element i.
CallsFor(i) == Cardinality({k \in 1..Len(importCalls) : importCalls[k] = i})

MaxElements == 2
\* Width of size_t in the model.
SizeBits == 16
\* Line 61: the width of the 2D texture of the legacy technique.
mMaxTexSize == 2048

\* A value as a size_t.
SizeT(x) == x % (2 ^ SizeBits)

Min(a, b) == IF a < b THEN a ELSE b

\* The sizes an element of the buffer and a texel of its format can have.
ElementSizes == {1, 4}

\* The buffers the constructor (lines 41-85) can have made: the native
\* technique, or the legacy one with the members the constructor derives
\* for it.
TexBuffers ==
    { [mNumElements |-> n, mBytesPerElement |-> b, mFinalBufferStart |-> s,
       mUseLegacyTechnique |-> FALSE,
       mInternalNumElemBytes |-> 1, mInternalNumElements |-> 0] :
        n \in 0..MaxElements, b \in ElementSizes, s \in {0, 1} }
    \cup
    { [mNumElements |-> n, mBytesPerElement |-> b, mFinalBufferStart |-> s,
       mUseLegacyTechnique |-> TRUE,
       mInternalNumElemBytes |-> e, mInternalNumElements |-> n \div e] :
        n \in 0..MaxElements, b \in ElementSizes, s \in {0, 1},
        e \in ElementSizes }

\* mNumElements * mBytesPerElement
TotalSizeBytes(buf) == SizeT(buf.mNumElements * buf.mBytesPerElement)

GlCall(fn, target, a, b, c) == [fn |-> fn, target |-> target, a |-> a, b |-> b, c |-> c]

\* The GL context after one call.
ApplyGl(gl, call) ==
    IF call.fn = "glActiveTexture" THEN [gl EXCEPT !.activeTexture = call.a]
    ELSE IF call.fn = "glPixelStorei" THEN [gl EXCEPT !.unpackAlignment = call.a]
    ELSE IF call.fn = "glBindBuffer" THEN [gl EXCEPT !.pixelUnpackBuffer = call.a]
    ELSE IF call.fn = "glBindTexture"
         THEN [gl EXCEPT !.unit = gl.activeTexture, !.target = call.target]
    ELSE IF call.fn \in {"glTexBufferRange", "glTexSubImage2D"}
         THEN [gl EXCEPT !.start = call.a, !.bytes = call.b]
    ELSE gl

RECURSIVE ApplyGlCalls(_, _)
ApplyGlCalls(gl, calls) ==
    IF calls = << >> THEN gl
    ELSE ApplyGlCalls(ApplyGl(gl, Head(calls)), Tail(calls))

\* Line 95: assert( offset < (mNumElements * mBytesPerElement - 1) )
OffsetAssertionHolds(buf, offset) == offset < SizeT(TotalSizeBytes(buf) - 1)

\* Line 96: assert( (offset + sizeBytes) <= mNumElements * mBytesPerElement )
RangeAssertionHolds(buf, offset, sizeBytes) ==
    SizeT(offset + sizeBytes) <= TotalSizeBytes(buf)

\* Line 98: sizeBytes = !sizeBytes ? (mNumElements * mBytesPerElement -
\* offset) : sizeBytes
EffectiveSizeBytes(buf, offset, sizeBytes) ==
    IF sizeBytes = 0 THEN SizeT(TotalSizeBytes(buf) - offset) ELSE sizeBytes

\* Lines 136-146: the native path.
NativeBindCalls(buf, slot, offset, sizeBytes) ==
    << GlCall("glActiveTexture", "GL_TEXTURE0", slot, 0, 0),
       GlCall("glBindTexture", "GL_TEXTURE_BUFFER", mTexName, 0, 0),
       GlCall("glTexBufferRange", "GL_TEXTURE_BUFFER",
              SizeT(buf.mFinalBufferStart * buf.mBytesPerElement + offset),
              sizeBytes, VboName),
       GlCall("glActiveTexture", "GL_TEXTURE0", 0, 0, 0) >>

\* Lines 106-133: the legacy path, which copies texWidth x texHeight texels
\* of the buffer into a 2D texture.
LegacyBindCalls(buf, slot, offset, sizeBytes) ==
    LET numModifiedElements == sizeBytes \div buf.mInternalNumElemBytes
        texWidth == Min(numModifiedElements,
                        Min(mMaxTexSize, buf.mInternalNumElements))
        texHeight == SizeT(numModifiedElements + mMaxTexSize - 1) \div mMaxTexSize
        unaligned == (buf.mBytesPerElement \div 4) % 2 # 1
    IN (IF unaligned
        THEN << GlCall("glPixelStorei", "GL_UNPACK_ALIGNMENT", 1, 0, 0) >>
        ELSE << >>)
       \o << GlCall("glBindBuffer", "GL_PIXEL_UNPACK_BUFFER", VboName, 0, 0),
             GlCall("glActiveTexture", "GL_TEXTURE0", slot, 0, 0),
             GlCall("glBindTexture", "GL_TEXTURE_2D", mTexName, 0, 0),
             GlCall("glTexSubImage2D", "GL_TEXTURE_2D",
                    SizeT(buf.mFinalBufferStart * buf.mBytesPerElement + offset),
                    texWidth * texHeight * buf.mInternalNumElemBytes, 0),
             GlCall("glActiveTexture", "GL_TEXTURE0", 0, 0, 0) >>
       \o (IF unaligned
           THEN << GlCall("glPixelStorei", "GL_UNPACK_ALIGNMENT", 4, 0, 0) >>
           ELSE << >>)

\* Lines 100-146 with the size of line 98.
BindCalls(buf, slot, offset, sizeBytes) ==
    IF buf.mUseLegacyTechnique
    THEN LegacyBindCalls(buf, slot, offset, sizeBytes)
    ELSE NativeBindCalls(buf, slot, offset, sizeBytes)

\* Lines 94-96 and 108: the assertions of a build that has them.
BindAssertionsHold(buf, offset, sizeBytes) ==
    /\ OffsetAssertionHolds(buf, offset)
    /\ RangeAssertionHolds(buf, offset, sizeBytes)
    /\ buf.mUseLegacyTechnique
         => EffectiveSizeBytes(buf, offset, sizeBytes) % buf.mInternalNumElemBytes = 0

\* bindBuffer( slot, offset, sizeBytes ): the calls it makes, or the abort of
\* a failed assertion.
BindBuffer(buf, noAsserts, slot, offset, sizeBytes) ==
    IF ~noAsserts /\ ~BindAssertionsHold(buf, offset, sizeBytes)
    THEN [outcome |-> "abort", calls |-> << >>]
    ELSE [outcome |-> "ok",
          calls |-> BindCalls(buf, slot, offset,
                              EffectiveSizeBytes(buf, offset, sizeBytes))]

\* The state a call of an entry point leaves, given what bindBuffer did.
Bound(entry, slot, offset, sizeBytes, done) ==
    /\ glCalls' = done.calls
    /\ glState' = ApplyGlCalls(glState, done.calls)
    /\ lastBind' = [entry |-> entry, slot |-> slot, offset |-> offset,
                    sizeBytes |-> sizeBytes, outcome |-> done.outcome]
    /\ UNCHANGED << texBuffer, ndebug, hlmsVars, importVars, pieceVars,
                    nodeVars, rsVars >>

\* The arguments of the calls: a texture unit other than the one that is
\* active between calls, the offsets up to one past the end of the buffer,
\* and the sizes 0, 1, the rest of the buffer and one more than the rest.
Slots == {1}
Offsets == 0..(TotalSizeBytes(texBuffer) + 1)
Sizes(offset) ==
    {0, 1} \cup {s \in {TotalSizeBytes(texBuffer) - offset,
                        TotalSizeBytes(texBuffer) - offset + 1} : s >= 0}

BindBufferVS ==
    /\ lastBind.outcome # "abort"
    /\ \E slot \in Slots, offset \in Offsets : \E sizeBytes \in Sizes(offset) :
          Bound("bindBufferVS", slot, offset, sizeBytes,
                BindBuffer(texBuffer, ndebug, slot, offset, sizeBytes))

BindBufferPS ==
    /\ lastBind.outcome # "abort"
    /\ \E slot \in Slots, offset \in Offsets : \E sizeBytes \in Sizes(offset) :
          Bound("bindBufferPS", slot, offset, sizeBytes,
                BindBuffer(texBuffer, ndebug, slot, offset, sizeBytes))

\* A geometry-stage entry point that hands its arguments on in another
\* order.
BindBufferGSSwapped ==
    /\ lastBind.outcome # "abort"
    /\ \E slot \in Slots, offset \in Offsets : \E sizeBytes \in Sizes(offset) :
          Bound("bindBufferGS", slot, offset, sizeBytes,
                BindBuffer(texBuffer, ndebug, slot, sizeBytes, offset))

BindBufferGS ==
    /\ lastBind.outcome # "abort"
    /\ \E slot \in Slots, offset \in Offsets : \E sizeBytes \in Sizes(offset) :
          Bound("bindBufferGS", slot, offset, sizeBytes,
                BindBuffer(texBuffer, ndebug, slot, offset, sizeBytes))

BindBufferHS ==
    /\ lastBind.outcome # "abort"
    /\ \E slot \in Slots, offset \in Offsets : \E sizeBytes \in Sizes(offset) :
          Bound("bindBufferHS", slot, offset, sizeBytes,
                BindBuffer(texBuffer, ndebug, slot, offset, sizeBytes))

BindBufferDS ==
    /\ lastBind.outcome # "abort"
    /\ \E slot \in Slots, offset \in Offsets : \E sizeBytes \in Sizes(offset) :
          Bound("bindBufferDS", slot, offset, sizeBytes,
                BindBuffer(texBuffer, ndebug, slot, offset, sizeBytes))

BindBufferCS ==
    /\ lastBind.outcome # "abort"
    /\ \E slot \in Slots, offset \in Offsets : \E sizeBytes \in Sizes(offset) :
          Bound("bindBufferCS", slot, offset, sizeBytes,
                BindBuffer(texBuffer, ndebug, slot, offset, sizeBytes))

InitBind ==
    /\ InitHlms
    /\ InitImporter
    /\ InitPieces
    /\ InitNode
    /\ InitRs
    /\ document = EmptyDocument
    /\ texBuffer \in TexBuffers
    /\ ndebug \in BOOLEAN
    /\ glState = InitGlState
    /\ glCalls = << >>
    /\ lastBind = NoBind

NextBind ==
    \/ BindBufferVS
    \/ BindBufferPS
    \/ BindBufferGS
    \/ BindBufferHS
    \/ BindBufferDS
    \/ BindBufferCS

SpecBind == InitBind /\ [][NextBind]_vars

\* C20: on a buffer of N >= 1 bytes a bind with sizeBytes = 0 and an offset
\* below N is accepted and binds the N - offset bytes that start at offset
\* (counted from the buffer's start in its buffer object); so bind(0, 0)
\* binds all N bytes, for N = 1 too.
C20_ZeroSizeBindsRestOfBuffer ==
    ( /\ lastBind.entry # "none"
      /\ TotalSizeBytes(texBuffer) >= 1
      /\ lastBind.sizeBytes = 0
      /\ lastBind.offset < TotalSizeBytes(texBuffer) )
    => /\ lastBind.outcome = "ok"
       /\ glState.unit = lastBind.slot
       /\ glState.start = texBuffer.mFinalBufferStart * texBuffer.mBytesPerElement
                            + lastBind.offset
       /\ glState.bytes = TotalSizeBytes(texBuffer) - lastBind.offset

\* C21: in a build with assertions a bind is accepted exactly when
\* offset < N and offset + sizeBytes <= N, N being the buffer's size in
\* bytes: offset = N - 1 is accepted, and nothing is accepted on a buffer of
\* N = 0 (native path, which has no assertion but those of lines 94-96).
C21_AssertionsAreThePrecondition ==
    ( /\ lastBind.entry # "none"
      /\ ~ndebug
      /\ ~texBuffer.mUseLegacyTechnique )
    => ( lastBind.outcome = "ok"
           <=> /\ lastBind.offset < TotalSizeBytes(texBuffer)
               /\ lastBind.offset + lastBind.sizeBytes
                    <= TotalSizeBytes(texBuffer) )

\* C22: whichever of the six entry points makes a call, the call does what
\* bindBuffer does with the same slot, offset and sizeBytes in the same
\* state: the same GL calls in the same order (or the same abort), the same
\* GL context after them, and the buffer's members left as they were. So
\* two entry points called in the same state with the same arguments differ
\* in nothing but their name.
C22_EntryPointsAreEquivalent ==
    [][\A entry \in {"bindBufferVS", "bindBufferPS", "bindBufferGS",
                     "bindBufferHS", "bindBufferDS", "bindBufferCS"} :
          lastBind'.entry = entry
          => LET done == BindBuffer(texBuffer, ndebug, lastBind'.slot,
                                    lastBind'.offset, lastBind'.sizeBytes)
             IN /\ lastBind'.outcome = done.outcome
                /\ glCalls' = done.calls
                /\ glState' = ApplyGlCalls(glState, done.calls)
                /\ texBuffer' = texBuffer
    ]_vars

\* The geometry-stage entry point has bound a range of more than one byte
\* at an offset other than 0.
C22_Witness ==
    /\ lastBind.entry = "bindBufferGS"
    /\ lastBind.outcome = "ok"
    /\ lastBind.offset = 1
    /\ lastBind.sizeBytes = 3
    /\ glState.bytes = 3

(***************************************************************************)
(* SceneFormatImporter::importNode (lines 130-153) with the decoders it    *)
(* calls (lines 61-113).                                                   *)
(***************************************************************************)
\* A JSON value of an array: an unsigned number or something else.
UintElement(u32) == [isUint |-> TRUE, u32 |-> u32]
OtherElement == [isUint |-> FALSE, u32 |-> 0]

\* The members a "node" object can hold under one name: none, a string, an
\* array of four numbers, an array of two elements whose first is no number,
\* a boolean.
ArrayMember(array) == [kind |-> "array", array |-> array, bool |-> FALSE]
BoolMember(bool) == [kind |-> "bool", array |-> << >>, bool |-> bool]
StringMember == [kind |-> "string", array |-> << >>, bool |-> FALSE]

MemberValues ==
    { AbsentMember, StringMember, BoolMember(FALSE),
      ArrayMember(<< UintElement(5), UintElement(6), UintElement(7),
                     UintElement(8) >>),
      ArrayMember(<< OtherElement, UintElement(9) >>) }

\* The "node" objects of the model: every member takes every value but one
\* of two, to keep their number down.
NodeValues ==
    { v \in [NodeMembers -> MemberValues] :
        /\ v["rotation"].kind # "bool"
        /\ v["inherit_orientation"].array = << >>
        /\ v["scale"] # ArrayMember(<< OtherElement, UintElement(9) >>) }

\* A node that was moved before: no field has its default.
MovedNode ==
    [ position |-> << Float(1), Float(1), Float(1) >>,
      orientation |-> << Float(0), FloatOne, Float(0), Float(0) >>,
      scale |-> << Float(2), Float(2), Float(2) >>,
      inheritOrientation |-> FALSE, inheritScale |-> FALSE ]

\* decodeVector3Array, decodeQuaternionArray (lines 74-113): the first
\* Len(retVal) elements that are unsigned numbers replace, through
\* decodeFloat, the components of the value the result starts from.
DecodeArray(jsonArray, retVal) ==
    [i \in 1..Len(retVal) |->
        IF i <= Len(jsonArray) /\ jsonArray[i].isUint
        THEN Float(jsonArray[i].u32)
        ELSE retVal[i]]

\* A test that takes every member that is present.
MemberIsPresent(member, kind) == member.kind # "absent"

\* itor != nodeValue.MemberEnd() && itor->value.IsArray() (or IsBool())
MemberIs(member, kind) == member.kind = kind

\* Lines 134-152: the five members, each applied when it is there with its
\* type.
ImportedNode(value, current) ==
    [ position |->
        IF MemberIs(value["position"], "array")
        THEN DecodeArray(value["position"].array, Vector3Zero)
        ELSE current.position,
      orientation |->
        IF MemberIs(value["rotation"], "array")
        THEN DecodeArray(value["rotation"].array, QuaternionIdentity)
        ELSE current.orientation,
      scale |->
        IF MemberIs(value["scale"], "array")
        THEN DecodeArray(value["scale"].array, Vector3Zero)
        ELSE current.scale,
      inheritOrientation |->
        IF MemberIs(value["inherit_orientation"], "bool")
        THEN value["inherit_orientation"].bool
        ELSE current.inheritOrientation,
      inheritScale |->
        IF MemberIs(value["inherit_scale"], "bool")
        THEN value["inherit_scale"].bool
        ELSE current.inheritScale ]

ImportNode ==
    /\ node' = ImportedNode(nodeValue, node)
    /\ UNCHANGED << nodeValue, hlmsVars, importVars, pieceVars, bufferVars,
                    rsVars >>

InitImportNode ==
    /\ InitHlms
    /\ InitImporter
    /\ InitPieces
    /\ InitBuffer
    /\ InitRs
    /\ document = EmptyDocument
    /\ nodeValue \in NodeValues
    /\ node \in {EngineDefaults, MovedNode}

SpecNode == InitImportNode /\ [][ImportNode]_vars

\* C31: importNode gives the node the position, orientation and scale of
\* the members "position", "rotation", "scale" that are arrays and the two
\* inheritance flags of the members that are booleans; a field whose
\* member is absent or has another type keeps the value the node had.
C31_OnlyTypedMembersAreApplied ==
    [][ /\ node'.position
              = IF nodeValue["position"].kind = "array"
                THEN DecodeArray(nodeValue["position"].array, Vector3Zero)
                ELSE node.position
        /\ node'.orientation
              = IF nodeValue["rotation"].kind = "array"
                THEN DecodeArray(nodeValue["rotation"].array, QuaternionIdentity)
                ELSE node.orientation
        /\ node'.scale
              = IF nodeValue["scale"].kind = "array"
                THEN DecodeArray(nodeValue["scale"].array, Vector3Zero)
                ELSE node.scale
        /\ node'.inheritOrientation
              = IF nodeValue["inherit_orientation"].kind = "bool"
                THEN nodeValue["inherit_orientation"].bool
                ELSE node.inheritOrientation
        /\ node'.inheritScale
              = IF nodeValue["inherit_scale"].kind = "bool"
                THEN nodeValue["inherit_scale"].bool
                ELSE node.inheritScale
    ]_vars

\* A moved node has been given the position of the record; the record's
\* scale is a string and it has no inherit_scale, and the node has kept the
\* scale and the flag it had.
C31_Witness ==
    /\ nodeValue["position"].kind = "array"
    /\ Len(nodeValue["position"].array) = 4
    /\ node.position = << Float(5), Float(6), Float(7) >>
    /\ nodeValue["scale"].kind = "string"
    /\ node.scale = MovedNode.scale
    /\ nodeValue["inherit_scale"].kind = "absent"
    /\ node.inheritScale = FALSE

(***************************************************************************)
(* HlmsCompute::_changeRenderSystem (lines 91-116).  A render system is    *)
(* the set of shader profiles its capabilities support.                    *)
(***************************************************************************)
\* Line 98: "Prefer glsl over glsles".
ShaderProfiles == << "hlsl", "glsles", "glsl" >>

\* Lines 73-77: "Must be sorted from best to worst".
BestD3DComputeShaderTargets == << "cs_5_0", "cs_4_1", "cs_4_0" >>

RenderSystems ==
    SUBSET ({ShaderProfiles[i] : i \in 1..3}
                \cup {BestD3DComputeShaderTargets[j] : j \in 1..3})

\* Lines 101-105: every supported profile is assigned in turn, the last
\* supported one stays.
ProfileAfterLoop(capabilities, profile) ==
    LET supported == {i \in 1..3 : ShaderProfiles[i] \in capabilities}
    IN IF supported = {} THEN profile
       ELSE ShaderProfiles[CHOOSE i \in supported :
                               \A k \in supported : k <= i]

\* Lines 109-113: the loop runs while mComputeShaderTarget is null.
TargetAfterLoop(capabilities, target) ==
    LET supported == {j \in 1..3 :
                         BestD3DComputeShaderTargets[j] \in capabilities}
    IN IF target # NoTarget \/ supported = {} THEN target
       ELSE BestD3DComputeShaderTargets[CHOOSE j \in supported :
                                            \A k \in supported : j <= k]

\* _changeRenderSystem( newRs ), newRs null or a render system.  The base
\* class's Hlms::_changeRenderSystem stores newRs in mRenderSystem; it is
\* taken to leave mShaderProfile as it is or to reset it.  No job exists and
\* the caches are empty whenever this is called here.
ChangeRenderSystem(newRs) ==
    /\ mRenderSystem' = newRs
    /\ \E base \in {shaderProfile, "unset"} :
          IF newRs # NoRenderSystem
          THEN /\ shaderProfile' = ProfileAfterLoop(newRs, base)
               /\ mComputeShaderTarget' =
                     IF shaderProfile' = "hlsl"
                     THEN TargetAfterLoop(newRs, mComputeShaderTarget)
                     ELSE mComputeShaderTarget
          ELSE /\ shaderProfile' = base
               /\ UNCHANGED mComputeShaderTarget
    /\ UNCHANGED << hlmsVars, importVars, pieceVars, bufferVars, nodeVars >>

NextRs == \E newRs \in RenderSystems \cup {NoRenderSystem} :
              ChangeRenderSystem(newRs)

SpecRs == Init /\ [][NextRs]_vars

\* The profile and the target the preferences ask for.
PreferredProfile(capabilities) ==
    IF "glsl" \in capabilities THEN "glsl"
    ELSE IF "glsles" \in capabilities THEN "glsles" ELSE "hlsl"

BestTarget(capabilities) ==
    IF "cs_5_0" \in capabilities THEN "cs_5_0"
    ELSE IF "cs_4_1" \in capabilities THEN "cs_4_1" ELSE "cs_4_0"

\* C40: while a render system that supports one of the three profiles is
\* set, the shader profile is the preferred one it supports; the compute
\* shader target is null when that profile is not hlsl, and is the best
\* target the render system supports when the profile is hlsl and the render
\* system supports a target.
C40_ProfileAndTargetFollowRenderSystem ==
    ( /\ mRenderSystem # NoRenderSystem
      /\ mRenderSystem \cap {"hlsl", "glsles", "glsl"} # {} )
    => /\ shaderProfile = PreferredProfile(mRenderSystem)
       /\ shaderProfile # "hlsl" => mComputeShaderTarget = NoTarget
       /\ ( /\ shaderProfile = "hlsl"
            /\ mRenderSystem \cap {"cs_5_0", "cs_4_1", "cs_4_0"} # {} )
          => mComputeShaderTarget = BestTarget(mRenderSystem)

====
